---- MODULE Spec2Model ----
(***************************************************************************)
(* A model of the in-process message broker of core/message_broker.py      *)
(* (class MessageBroker) as it runs on one asyncio event loop.             *)
(*                                                                         *)
(* One action is one run of a task from a resume to its next suspension    *)
(* point (cooperative scheduling: nothing interleaves inside it).  The     *)
(* dictionaries of the broker are partial functions (DOMAIN = the keys).   *)
(* Queue objects live in a heap (queues) because tasks keep a reference to *)
(* the queue they started on after stop() has cleared the topic map.       *)
(***************************************************************************)
EXTENDS Integers, Sequences, FiniteSets, TLC

\* ------------------------------------------------------------- bounds
\* capacity of every topic queue (constructor parameter, default 1000)
max_queue_size == 2
\* publish calls that get past the running check
MaxPublish == 2
\* dispatch tasks ever created
MaxTasks == 1
\* consume() sequences ever started
MaxConsumers == 2
\* stop() calls that get past the running check
MaxStops == 1
\* longest timeout a caller passes, in polling intervals of 1.0 s
MaxTimeout == 2
\* subscribe() calls whose scheduled setup work has not run yet
MaxPending == 1

\* how long the manager is watched, in units of ten seconds
MaxTime == 6
\* ---------------------------------------------------------- constants
\* ConnectionManager.__init__ defaults 30.0 s and 10.0 s, in units of 10 s
heartbeat_interval == 3
ping_timeout == 1
\* InternalMessageType: the well-known topics start() creates.  The five
\* enum values are treated alike by the code; one stands for them.
QUERY_RESPONSE == "InternalMessageType.QUERY_RESPONSE"
InternalMessageType == {QUERY_RESPONSE}
Topics == InternalMessageType \cup {"t1"}
Callbacks == {"cb1", "cb2"}
\* payloads a caller publishes (open key-value maps without reserved keys)
Payloads == {[text |-> "hi"], [text |-> "yo"]}
\* timeout = None
None == 0
\* the 1.0 s of asyncio.sleep(1.0) and of the default wait, in intervals
PollInterval == 1

\* What the callers do in one run: the topics, callbacks, payloads and
\* timeouts they pass and how many calls of each kind they make.
Profile(ts, cbs, ps, tos, np, nt, nc, no, ns) ==
  [topics |-> ts, callbacks |-> cbs, payloads |-> ps, timeouts |-> tos,
   publishes |-> np, tasks |-> nt, pending |-> MaxPending,
   consumers |-> nc, ones |-> no, stops |-> ns]

EmptyDict == [x \in {} |-> 0]
Put(d, k, v) == (k :> v) @@ d
Range(s) == {s[i] : i \in DOMAIN s}
Remove(s, x) ==
  LET i == CHOOSE j \in DOMAIN s : s[j] = x /\ \A k \in 1..(j - 1) : s[k] # x
  IN  SubSeq(s, 1, i - 1) \o SubSeq(s, i + 1, Len(s))

VARIABLES
  running,           \* self._running
  topics,            \* self.topics: topic -> queue object (index in queues)
  queues,            \* the Queue objects ever created: their contents
  subscribers,       \* self.subscribers: topic -> list of callbacks
  message_handlers,  \* self.message_handlers: topic -> list of dispatch tasks
  consumers,         \* self.consumers: topic -> list of consumer tasks
  broker_tasks,      \* self._broker_tasks
  message_stats,     \* self.message_stats
  tasks,             \* the dispatch tasks (_process_topic_messages) ever created
  cons,              \* the consume() sequences ever started
  ones,              \* the consume_one() calls ever started
  pending,           \* tasks subscribe() has scheduled and that have not run
  stops,             \* stop() calls suspended in gather: the tasks each awaits
  nstops,            \* stop() calls so far that got past the running check
  pubs,              \* publish calls so far (stands for time.time(), id(message))
  delivered,         \* callback -> the messages it was invoked with, in order
  lim,               \* what the callers of this run do (fixed at the start)
  ret                \* what the last call returned

\* The connection manager of server/websocket_handler.py (ConnectionManager)
VARIABLES
  active_connections,   \* self.active_connections: user id -> transport
  user_heartbeats,      \* self.user_heartbeats: user id -> time.time()
  heartbeat_tasks,      \* self.heartbeat_tasks: user id -> task (index in loops)
  heartbeat_running,    \* self._heartbeat_running
  main_heartbeat_task,  \* self._main_heartbeat_task
  loops,                \* the _user_heartbeat_loop tasks ever created
  sockets,              \* the transports (WebSocket objects) ever offered
  casts,                \* the broadcast() calls ever started
  now,                  \* time.time(), in units of ten seconds
  written,              \* the transports the last step tried to write to
  client                \* the ConnectionManager of client/connection_manager.py

manager == <<active_connections, user_heartbeats, heartbeat_tasks,
             heartbeat_running, main_heartbeat_task, loops, sockets, casts,
             now, written, client>>

broker == <<running, topics, queues, subscribers, message_handlers, consumers,
            broker_tasks, message_stats, tasks, cons, ones, pending, stops,
            nstops, pubs, delivered, lim>>

vars == <<running, topics, queues, subscribers, message_handlers, consumers,
          broker_tasks, message_stats, tasks, cons, ones, pending, stops,
          nstops, pubs, delivered, lim, ret, manager>>

\* The broker's own fields and the tasks, as one value the methods transform.
Cur ==
  [running |-> running, topics |-> topics, queues |-> queues,
   subscribers |-> subscribers, message_handlers |-> message_handlers,
   consumers |-> consumers, broker_tasks |-> broker_tasks,
   message_stats |-> message_stats, tasks |-> tasks]

SetBroker(b) ==
  /\ running' = b.running
  /\ topics' = b.topics
  /\ queues' = b.queues
  /\ subscribers' = b.subscribers
  /\ message_handlers' = b.message_handlers
  /\ consumers' = b.consumers
  /\ broker_tasks' = b.broker_tasks
  /\ message_stats' = b.message_stats
  /\ tasks' = b.tasks

NoRet == [op |-> "none"]

\* a task of the client: the caller's (kind "user") or a _receive_loop;
\* chain: whether the connect() it is in was called by the user or by
\* _handle_connection_error; after: where that handler returns to
NewThread(kind) ==
  [kind |-> kind, pc |-> IF kind = "user" THEN "idle" ELSE "new",
   chain |-> "none", after |-> "none", ws |-> 0, cancelled |-> FALSE]

\* ConnectionManager.__init__ of the client, and the caller's task
NewClient ==
  [is_connected |-> FALSE, reconnect_attempts |-> 0, websocket |-> 0,
   receive_task |-> 0, event |-> FALSE, wss |-> <<>>,
   threads |-> <<NewThread("user")>>, last |-> <<>>]

InitFor(profiles) ==
  /\ running = FALSE
  /\ topics = EmptyDict
  /\ queues = <<>>
  /\ subscribers = EmptyDict
  /\ message_handlers = EmptyDict
  /\ consumers = EmptyDict
  /\ broker_tasks = <<>>
  /\ message_stats = [total_published |-> 0, total_processed |-> 0,
                      total_failed |-> 0, topics_created |-> 0,
                      total_consumed |-> 0]
  /\ tasks = <<>>
  /\ cons = <<>>
  /\ ones = <<>>
  /\ pending = <<>>
  /\ stops = <<>>
  /\ nstops = 0
  /\ pubs = 0
  /\ delivered = [cb \in Callbacks |-> <<>>]
  /\ lim \in profiles
  /\ ret = NoRet
  /\ active_connections = EmptyDict
  /\ user_heartbeats = EmptyDict
  /\ heartbeat_tasks = EmptyDict
  /\ heartbeat_running = FALSE
  /\ main_heartbeat_task = "none"
  /\ loops = <<>>
  /\ sockets = <<>>
  /\ casts = <<>>
  /\ now = 0
  /\ written = {}
  /\ client = NewClient

\* ------------------------------------------------------------ messages
BrokerKeys == {"_broker_timestamp", "_broker_topic", "_broker_id"}
NoMsg == EmptyDict

\* publish, lines 115-120: {**message, "_broker_timestamp": ..., ...}; the
\* broker's keys are written last and so replace a caller's.  n stands for
\* the clock and the object identity the real values are derived from.
Enrich(message, topic, n) ==
  [k \in DOMAIN message \cup BrokerKeys |->
     IF k = "_broker_timestamp" THEN n
     ELSE IF k = "_broker_topic" THEN topic
     ELSE IF k = "_broker_id" THEN <<topic, n>>
     ELSE message[k]]

\* the caller's part of an enriched message
PayloadOf(m) == [k \in DOMAIN m \ BrokerKeys |-> m[k]]

\* a queue without a bound
QueueNeverFull(q) == FALSE

\* asyncio.Queue.full(): a queue made with maxsize <= 0 is never full
QueueFull(q) == max_queue_size > 0 /\ Len(q) >= max_queue_size

\* ------------------------------------------------------ task records
NewTask(topic) ==
  [topic |-> topic, pc |-> "new", queue |-> 0, live |-> FALSE, subs |-> <<>>,
   msg |-> NoMsg, calls |-> <<>>, todo |-> <<>>, results |-> <<>>,
   timer |-> 0, cancelled |-> FALSE]

\* The dict entry subscribers[topic] is about to be replaced or dropped: a
\* dispatch task whose local `subscribers` is that list object keeps the
\* object, with the content it has now.
Detach(b, topic) ==
  [b EXCEPT !.tasks =
     [i \in DOMAIN b.tasks |->
        IF b.tasks[i].topic = topic /\ b.tasks[i].live
        THEN [b.tasks[i] EXCEPT !.live = FALSE,
                                !.subs = b.subscribers[topic]]
        ELSE b.tasks[i]]]

\* -------------------------------------------------------- the methods
\* a creation that does not look whether the topic exists
EnsureTopicAnew(b, topic) ==
  LET d == IF topic \in DOMAIN b.subscribers THEN Detach(b, topic) ELSE b
  IN  [d EXCEPT !.queues = Append(@, <<>>),
                !.topics = Put(@, topic, Len(d.queues) + 1),
                !.subscribers = Put(@, topic, <<>>),
                !.message_handlers = Put(@, topic, <<>>),
                !.consumers = Put(@, topic, <<>>),
                !.message_stats.topics_created = @ + 1]

\* _ensure_topic_exists
EnsureTopicExists(b, topic) ==
  IF topic \in DOMAIN b.topics THEN b
  ELSE LET d == IF topic \in DOMAIN b.subscribers THEN Detach(b, topic) ELSE b
       IN  [d EXCEPT !.queues = Append(@, <<>>),
                     !.topics = Put(@, topic, Len(d.queues) + 1),
                     !.subscribers = Put(@, topic, <<>>),
                     !.message_handlers = Put(@, topic, <<>>),
                     !.consumers = Put(@, topic, <<>>),
                     !.message_stats.topics_created = @ + 1]

\* task.done() of a dispatch task
TaskDone(b, i) == b.tasks[i].pc = "done"

\* _ensure_topic_processing
EnsureTopicProcessing(b, topic) ==
  LET b1 == IF topic \in DOMAIN b.message_handlers THEN b
            ELSE [b EXCEPT !.message_handlers = Put(@, topic, <<>>)]
      active_tasks == {i \in Range(b1.message_handlers[topic]) : ~TaskDone(b1, i)}
      id == Len(b1.tasks) + 1
  IN  IF active_tasks = {}
      THEN [b1 EXCEPT !.tasks = Append(@, NewTask(topic)),
                      !.message_handlers[topic] = Append(@, id),
                      !.broker_tasks = Append(@, id)]
      ELSE b1

HasSubscribers(b, topic) ==
  topic \in DOMAIN b.subscribers /\ b.subscribers[topic] # <<>>
HasConsumers(b, topic) ==
  topic \in DOMAIN b.consumers /\ b.consumers[topic] # <<>>

\* an enqueue that does not count the message
EnqueueUncounted(b, topic, enriched_message) ==
  LET q == b.topics[topic]
  IN  IF QueueFull(b.queues[q])
      THEN [b |-> b, val |-> FALSE]
      ELSE [b |-> EnsureTopicProcessing(
                    [b EXCEPT !.queues[q] = Append(@, enriched_message)],
                    topic),
            val |-> TRUE]

\* the enqueue of publish (lines 130-143)
Enqueue(b, topic, enriched_message) ==
  LET q == b.topics[topic]
  IN  IF QueueFull(b.queues[q])
      THEN [b |-> b, val |-> FALSE]
      ELSE [b |-> EnsureTopicProcessing(
                    [b EXCEPT !.queues[q] = Append(@, enriched_message),
                              !.message_stats.total_published = @ + 1],
                    topic),
            val |-> TRUE]

\* a publish that enqueues whether or not anybody reads the topic
publishUnread(b, topic, message, n) ==
  IF ~b.running THEN [b |-> b, val |-> FALSE]
  ELSE Enqueue(EnsureTopicExists(b, topic), topic, Enrich(message, topic, n))

\* a publish that does not look at self._running
publishStopped(b, topic, message, n) ==
  LET b1 == EnsureTopicExists(b, topic)
  IN  IF ~HasSubscribers(b1, topic) /\ ~HasConsumers(b1, topic)
      THEN [b |-> b1, val |-> FALSE]
      ELSE Enqueue(b1, topic, Enrich(message, topic, n))

\* publish: the broker after the call and what the call returns
publish(b, topic, message, n) ==
  IF ~b.running THEN [b |-> b, val |-> FALSE]
  ELSE
    LET b1 == EnsureTopicExists(b, topic)
        enriched_message == Enrich(message, topic, n)
    IN  IF ~HasSubscribers(b1, topic) /\ ~HasConsumers(b1, topic)
        THEN [b |-> b1, val |-> FALSE]
        ELSE Enqueue(b1, topic, enriched_message)

\* a subscribe that appends a callback the list already holds
subscribeAgain(b, topic, callback) ==
  IF ~b.running THEN [b |-> b, val |-> FALSE, sched |-> <<>>]
  ELSE
    LET b1 == IF topic \in DOMAIN b.subscribers THEN b
              ELSE [b EXCEPT !.subscribers = Put(@, topic, <<>>)]
    IN  [b |-> [b1 EXCEPT !.subscribers[topic] = Append(@, callback)],
         val |-> TRUE,
         sched |-> <<[co |-> "_ensure_topic_exists", topic |-> topic],
                     [co |-> "_ensure_topic_processing", topic |-> topic]>>]

\* a subscribe that does not look at self._running
subscribeStopped(b, topic, callback) ==
  LET b1 == IF topic \in DOMAIN b.subscribers THEN b
            ELSE [b EXCEPT !.subscribers = Put(@, topic, <<>>)]
  IN  IF callback \notin Range(b1.subscribers[topic])
      THEN [b |-> [b1 EXCEPT !.subscribers[topic] = Append(@, callback)],
            val |-> TRUE,
            sched |-> <<[co |-> "_ensure_topic_exists", topic |-> topic],
                        [co |-> "_ensure_topic_processing", topic |-> topic]>>]
      ELSE [b |-> b1, val |-> FALSE,
            sched |-> <<[co |-> "_ensure_topic_exists", topic |-> topic]>>]

\* subscribe: also the coroutines it hands to asyncio.create_task
subscribe(b, topic, callback) ==
  IF ~b.running THEN [b |-> b, val |-> FALSE, sched |-> <<>>]
  ELSE
    LET b1 == IF topic \in DOMAIN b.subscribers THEN b
              ELSE [b EXCEPT !.subscribers = Put(@, topic, <<>>)]
    IN  IF callback \notin Range(b1.subscribers[topic])
        THEN [b |-> [b1 EXCEPT !.subscribers[topic] = Append(@, callback)],
              val |-> TRUE,
              sched |-> <<[co |-> "_ensure_topic_exists", topic |-> topic],
                          [co |-> "_ensure_topic_processing", topic |-> topic]>>]
        ELSE [b |-> b1, val |-> FALSE,
              sched |-> <<[co |-> "_ensure_topic_exists", topic |-> topic]>>]

\* unsubscribe (no running check in the code)
unsubscribe(b, topic, callback) ==
  IF topic \in DOMAIN b.subscribers /\ callback \in Range(b.subscribers[topic])
  THEN [b |-> [b EXCEPT !.subscribers[topic] = Remove(@, callback)],
        val |-> TRUE]
  ELSE [b |-> b, val |-> FALSE]

\* the well-known topics in the order start() creates them
RECURSIVE EnsureAll(_, _)
EnsureAll(b, S) ==
  IF S = {} THEN b
  ELSE LET t == CHOOSE x \in S : TRUE
       IN  EnsureAll(EnsureTopicExists(b, t), S \ {t})

\* a start that creates the well-known topics afresh at every call
startAfresh(b) ==
  EnsureAll([b EXCEPT !.running = TRUE, !.topics = EmptyDict],
            InternalMessageType)

\* start
start(b) ==
  IF b.running THEN b
  ELSE EnsureAll([b EXCEPT !.running = TRUE], InternalMessageType)

\* one coroutine subscribe() scheduled, run as its own task
RunCoroutine(b, c) ==
  IF c.co = "_ensure_topic_exists" THEN EnsureTopicExists(b, c.topic)
  ELSE EnsureTopicProcessing(b, c.topic)

RECURSIVE RunAll(_, _)
RunAll(b, cs) ==
  IF cs = <<>> THEN b ELSE RunAll(RunCoroutine(b, Head(cs)), Tail(cs))

\* ------------------------------------------------------------ actions
Others == <<cons, ones, pending, stops, nstops, pubs, delivered, lim, manager>>

Start ==
  /\ SetBroker(start(Cur))
  /\ ret' = [op |-> "start"]
  /\ UNCHANGED Others

Publish(topic, message) ==
  /\ running => pubs < lim.publishes
  /\ LET r == publish(Cur, topic, message, pubs + 1)
     IN  /\ Len(r.b.tasks) <= lim.tasks
         /\ SetBroker(r.b)
         /\ ret' = [op |-> "publish", topic |-> topic, val |-> r.val]
  /\ pubs' = IF running THEN pubs + 1 ELSE pubs
  /\ UNCHANGED <<cons, ones, pending, stops, nstops, delivered, lim, manager>>

Subscribe(topic, callback) ==
  /\ running => Len(pending) < lim.pending
  /\ LET r == subscribe(Cur, topic, callback)
     IN  /\ SetBroker(r.b)
         /\ pending' = IF r.sched = <<>> THEN pending ELSE Append(pending, r.sched)
         /\ ret' = [op |-> "subscribe", topic |-> topic, cb |-> callback,
                    val |-> r.val]
  /\ UNCHANGED <<cons, ones, stops, nstops, pubs, delivered, lim, manager>>

Unsubscribe(topic, callback) ==
  /\ LET r == unsubscribe(Cur, topic, callback)
     IN  /\ SetBroker(r.b)
         /\ ret' = [op |-> "unsubscribe", topic |-> topic, cb |-> callback,
                    val |-> r.val]
  /\ UNCHANGED Others

\* the tasks of the oldest subscribe() that has not had them run: they were
\* scheduled back to back, so they run back to back
RunPending ==
  /\ pending # <<>>
  /\ LET b == RunAll(Cur, Head(pending))
     IN  /\ Len(b.tasks) <= lim.tasks
         /\ SetBroker(b)
  /\ pending' = Tail(pending)
  /\ ret' = NoRet
  /\ UNCHANGED <<cons, ones, stops, nstops, pubs, delivered, lim, manager>>

\* ---------------------------------------------------- dispatch loop
\* _process_topic_messages from the head of `while self._running` to the
\* next suspension point (lines 257-274)
LoopTop(b, i) ==
  LET topic == b.tasks[i].topic
      subs == IF topic \in DOMAIN b.subscribers THEN b.subscribers[topic] ELSE <<>>
      idle == [b.tasks[i] EXCEPT !.live = FALSE, !.subs = <<>>, !.msg = NoMsg,
                                 !.calls = <<>>, !.todo = <<>>,
                                 !.results = <<>>, !.timer = 0]
  IN  IF ~b.running
      THEN [b EXCEPT !.tasks[i] = [idle EXCEPT !.pc = "done"]]
      ELSE IF subs = <<>>
      THEN [b EXCEPT !.tasks[i] = [idle EXCEPT !.pc = "sleeping",
                                               !.timer = PollInterval]]
      ELSE [b EXCEPT !.tasks[i] = [idle EXCEPT !.pc = "waiting", !.live = TRUE,
                                               !.timer = PollInterval]]

\* the list object the task's local `subscribers` names, as it is now
LocalSubscribers(b, i) ==
  IF b.tasks[i].live THEN b.subscribers[b.tasks[i].topic] ELSE b.tasks[i].subs

\* the task's first run: queue = self.topics[topic] (KeyError ends the task)
DispatchBegin(b, i) ==
  LET topic == b.tasks[i].topic
  IN  IF topic \notin DOMAIN b.topics
      THEN [b EXCEPT !.tasks[i].pc = "done"]
      ELSE LoopTop([b EXCEPT !.tasks[i].queue = b.topics[topic]], i)

\* wait_for(queue.get()) returned a message: _process_message up to gather
ProcessMessage(b, i) ==
  LET q == b.tasks[i].queue
      message == Head(b.queues[q])
      subs == LocalSubscribers(b, i)
      b1 == [b EXCEPT !.queues[q] = Tail(@)]
  IN  IF subs = <<>>
      THEN LoopTop(b1, i)
      ELSE [b1 EXCEPT !.tasks[i] = [@ EXCEPT !.pc = "gathering", !.live = FALSE,
                                            !.subs = <<>>, !.msg = message,
                                            !.calls = subs, !.todo = subs,
                                            !.results = <<>>,
                                            !.timer = 0]]

\* _call_subscriber: what the task made for one callback returns
CallSubscriber(raised) == IF raised THEN "False" ELSE "True"

\* a raise that _call_subscriber does not catch ends the whole batch
RunCallUncaught(t, raised) ==
  IF raised THEN [t EXCEPT !.todo = <<>>, !.results = Append(@, "False")]
  ELSE [t EXCEPT !.todo = Tail(@), !.results = Append(@, "True")]

\* gather: the next task of the batch runs _call_subscriber to its end; the
\* tasks after it stay to be run whatever this one returns
RunCall(t, raised) ==
  [t EXCEPT !.todo = Tail(@), !.results = Append(@, CallSubscriber(raised))]

\* isinstance(result, Exception) in _process_message
IsException(result) == result \notin {"True", "False"}

\* gather returned: the tally of _process_message, then the loop goes on
Tally(b, i) ==
  LET results == b.tasks[i].results
      successful ==
        Cardinality({k \in DOMAIN results : ~IsException(results[k])})
      failed == Len(results) - successful
  IN  LoopTop([b EXCEPT !.message_stats.total_processed = @ + successful,
                        !.message_stats.total_failed = @ + failed], i)

\* except asyncio.TimeoutError in the dispatch loop (lines 279-284)
DispatchTimedOut(b, i) ==
  LET topic == b.tasks[i].topic
  IN  IF b.queues[b.tasks[i].queue] = <<>> /\ ~HasSubscribers(b, topic)
      THEN [b EXCEPT !.tasks[i] = [@ EXCEPT !.pc = "done", !.live = FALSE,
                                            !.subs = <<>>, !.timer = 0]]
      ELSE LoopTop(b, i)

Runnable(i) == i \in DOMAIN tasks /\ ~tasks[i].cancelled

DispatchStart(i) ==
  /\ Runnable(i) /\ tasks[i].pc = "new"
  /\ SetBroker(DispatchBegin(Cur, i))
  /\ ret' = NoRet
  /\ UNCHANGED Others

DispatchWake(i) ==
  /\ Runnable(i) /\ tasks[i].pc = "sleeping" /\ tasks[i].timer = 0
  /\ SetBroker(LoopTop(Cur, i))
  /\ ret' = NoRet
  /\ UNCHANGED Others

DispatchGet(i) ==
  /\ Runnable(i) /\ tasks[i].pc = "waiting"
  /\ queues[tasks[i].queue] # <<>>
  /\ SetBroker(ProcessMessage(Cur, i))
  /\ ret' = NoRet
  /\ UNCHANGED Others

DispatchCall(i, raised) ==
  /\ Runnable(i) /\ tasks[i].pc = "gathering" /\ tasks[i].todo # <<>>
  /\ LET cb == Head(tasks[i].todo)
     IN  /\ delivered' = [delivered EXCEPT ![cb] = Append(@, tasks[i].msg)]
         /\ tasks' = [tasks EXCEPT ![i] = RunCall(@, raised)]
  /\ ret' = NoRet
  /\ UNCHANGED <<running, topics, queues, subscribers, message_handlers,
                 consumers, broker_tasks, message_stats, cons, ones, pending,
                 stops, nstops, pubs, lim, manager>>

DispatchFinish(i) ==
  /\ Runnable(i) /\ tasks[i].pc = "gathering" /\ tasks[i].todo = <<>>
  /\ SetBroker(Tally(Cur, i))
  /\ ret' = NoRet
  /\ UNCHANGED Others

DispatchTimeout(i) ==
  /\ Runnable(i) /\ tasks[i].pc = "waiting" /\ tasks[i].timer = 0
  /\ queues[tasks[i].queue] = <<>>
  /\ SetBroker(DispatchTimedOut(Cur, i))
  /\ ret' = NoRet
  /\ UNCHANGED Others

\* a cancelled dispatch task: CancelledError is no Exception, so it passes
\* the handlers and ends the task at the suspension point it is at
DispatchCancelled(i) ==
  /\ i \in DOMAIN tasks /\ tasks[i].cancelled /\ tasks[i].pc # "done"
  /\ tasks' = [tasks EXCEPT ![i] = [NewTask(@.topic) EXCEPT !.pc = "done",
                                      !.queue = tasks[i].queue,
                                      !.cancelled = TRUE]]
  /\ ret' = NoRet
  /\ UNCHANGED <<running, topics, queues, subscribers, message_handlers,
                 consumers, broker_tasks, message_stats, cons, ones, pending,
                 stops, nstops, pubs, delivered, lim, manager>>

\* ------------------------------------------------------------ consume
NewConsumer(topic, timeout, q) ==
  [topic |-> topic, pc |-> "waiting", timeout |-> timeout,
   timer |-> IF timeout # None THEN timeout ELSE PollInterval,
   queue |-> q, cancelled |-> FALSE, got |-> <<>>]

\* the finally block of consume (lines 201-205)
ConsumerCleanup(cs, c, topic) ==
  IF topic \in DOMAIN cs /\ c \in Range(cs[topic])
  THEN [cs EXCEPT ![topic] = Remove(@, c)]
  ELSE cs

\* consume from the head of `while self._running` to wait_for: TRUE when the
\* sequence waits again, FALSE when it ends
ConsumeGoesOn == running

\* the first __anext__ of consume(topic, timeout)
ConsumeStart(topic, timeout) ==
  IF ~running
  THEN /\ ret' = [op |-> "consume", topic |-> topic, val |-> "ended"]
       /\ UNCHANGED <<running, topics, queues, subscribers, message_handlers,
                      consumers, broker_tasks, message_stats, tasks, cons,
                      ones, pending, stops, nstops, pubs, delivered, lim, manager>>
  ELSE /\ Len(cons) < lim.consumers
       /\ LET b == EnsureTopicExists(Cur, topic)
              c == Len(cons) + 1
          IN  /\ SetBroker([b EXCEPT !.consumers[topic] = Append(@, c)])
              /\ cons' = Append(cons, NewConsumer(topic, timeout, b.topics[topic]))
       /\ ret' = [op |-> "consume", topic |-> topic, val |-> "started"]
       /\ UNCHANGED <<ones, pending, stops, nstops, pubs, delivered, lim, manager>>

Consuming(c) == c \in DOMAIN cons /\ ~cons[c].cancelled

\* wait_for(queue.get()) returned a message: it is yielded to the caller
ConsumeGet(c) ==
  /\ Consuming(c) /\ cons[c].pc = "waiting"
  /\ queues[cons[c].queue] # <<>>
  /\ LET q == cons[c].queue
     IN  /\ queues' = [queues EXCEPT ![q] = Tail(@)]
         /\ cons' = [cons EXCEPT ![c].pc = "yielded", ![c].timer = 0,
                                 ![c].got = Append(@, Head(queues[q]))]
  /\ message_stats' = [message_stats EXCEPT !.total_consumed = @ + 1]
  /\ ret' = NoRet
  /\ UNCHANGED <<running, topics, subscribers, message_handlers, consumers,
                 broker_tasks, tasks, ones, pending, stops, nstops, pubs,
                 delivered, lim, manager>>

\* the sequence ends: its finally block runs
ConsumeEnd(c, pc) ==
  /\ consumers' = ConsumerCleanup(consumers, c, cons[c].topic)
  /\ cons' = [cons EXCEPT ![c].pc = pc, ![c].timer = 0]

\* the sequence waits for the next message
ConsumeWait(c) ==
  /\ consumers' = consumers
  /\ cons' = [cons EXCEPT ![c].pc = "waiting",
                          ![c].timer = IF cons[c].timeout # None
                                       THEN cons[c].timeout ELSE PollInterval]

\* the caller asks for the next message
ConsumeNext(c) ==
  /\ Consuming(c) /\ cons[c].pc = "yielded"
  /\ IF ConsumeGoesOn THEN ConsumeWait(c) ELSE ConsumeEnd(c, "ended")
  /\ ret' = NoRet
  /\ UNCHANGED <<running, topics, queues, subscribers, message_handlers,
                 broker_tasks, message_stats, tasks, ones, pending, stops,
                 nstops, pubs, delivered, lim, manager>>

\* a consume that goes on after every idle period
NeverBreaksOnTimeout(timeout) == FALSE

\* `if timeout is not None: break` (lines 186-188)
BreaksOnTimeout(timeout) == timeout # None

\* except asyncio.TimeoutError in consume (lines 184-189)
ConsumeTimeout(c) ==
  /\ Consuming(c) /\ cons[c].pc = "waiting" /\ cons[c].timer = 0
  /\ queues[cons[c].queue] = <<>>
  /\ IF BreaksOnTimeout(cons[c].timeout) THEN ConsumeEnd(c, "ended")
     ELSE IF ConsumeGoesOn THEN ConsumeWait(c)
     ELSE ConsumeEnd(c, "ended")
  /\ ret' = NoRet
  /\ UNCHANGED <<running, topics, queues, subscribers, message_handlers,
                 broker_tasks, message_stats, tasks, ones, pending, stops,
                 nstops, pubs, delivered, lim, manager>>

\* the caller leaves its loop on a message; the generator is not closed
\* until the event loop's finalizer hook runs aclose() on it
ConsumeAbandon(c) ==
  /\ Consuming(c) /\ cons[c].pc = "yielded"
  /\ cons' = [cons EXCEPT ![c].pc = "closing"]
  /\ ret' = NoRet
  /\ UNCHANGED <<running, topics, queues, subscribers, message_handlers,
                 consumers, broker_tasks, message_stats, tasks, ones, pending,
                 stops, nstops, pubs, delivered, lim, manager>>

\* aclose(): GeneratorExit at the yield, so only the finally block runs
ConsumeClose(c) ==
  /\ c \in DOMAIN cons /\ cons[c].pc = "closing"
  /\ ConsumeEnd(c, "ended")
  /\ ret' = NoRet
  /\ UNCHANGED <<running, topics, queues, subscribers, message_handlers,
                 broker_tasks, message_stats, tasks, ones, pending, stops,
                 nstops, pubs, delivered, lim, manager>>

\* the consuming task was cancelled.  Waiting in wait_for: consume catches
\* CancelledError, breaks and cleans up, and the task goes on after its
\* loop.  On a yielded message: the error is raised in the caller, the
\* task ends and the generator is finalized.
ConsumeCancelled(c) ==
  /\ c \in DOMAIN cons /\ cons[c].cancelled
  /\ cons[c].pc \in {"waiting", "yielded"}
  /\ ConsumeEnd(c, IF cons[c].pc = "waiting" THEN "ended" ELSE "done")
  /\ ret' = NoRet
  /\ UNCHANGED <<running, topics, queues, subscribers, message_handlers,
                 broker_tasks, message_stats, tasks, ones, pending, stops,
                 nstops, pubs, delivered, lim, manager>>

\* the caller cancels the task that iterates the sequence
CancelConsumer(c) ==
  /\ c \in DOMAIN cons /\ ~cons[c].cancelled
  /\ cons[c].pc \in {"waiting", "yielded"}
  /\ cons' = [cons EXCEPT ![c].cancelled = TRUE]
  /\ ret' = NoRet
  /\ UNCHANGED <<running, topics, queues, subscribers, message_handlers,
                 consumers, broker_tasks, message_stats, tasks, ones, pending,
                 stops, nstops, pubs, delivered, lim, manager>>

\* the task that iterated the sequence finishes
ConsumerExit(c) ==
  /\ c \in DOMAIN cons /\ cons[c].pc = "ended"
  /\ cons' = [cons EXCEPT ![c].pc = "done"]
  /\ ret' = NoRet
  /\ UNCHANGED <<running, topics, queues, subscribers, message_handlers,
                 consumers, broker_tasks, message_stats, tasks, ones, pending,
                 stops, nstops, pubs, delivered, lim, manager>>

\* -------------------------------------------------------- consume_one
OneStart(topic, timeout) ==
  IF ~running
  THEN /\ ret' = [op |-> "consume_one", topic |-> topic, val |-> NoMsg]
       /\ UNCHANGED <<running, topics, queues, subscribers, message_handlers,
                      consumers, broker_tasks, message_stats, tasks, cons,
                      ones, pending, stops, nstops, pubs, delivered, lim, manager>>
  ELSE /\ Len(ones) < lim.ones
       /\ LET b == EnsureTopicExists(Cur, topic)
          IN  /\ SetBroker(b)
              /\ ones' = Append(ones, [topic |-> topic, pc |-> "waiting",
                                       timeout |-> timeout, timer |-> timeout,
                                       queue |-> b.topics[topic]])
       /\ ret' = NoRet
       /\ UNCHANGED <<cons, pending, stops, nstops, pubs, delivered, lim, manager>>

\* what consume_one returns when wait_for hands it the head of the queue
OneResult(q) == Head(q)

OneGet(k) ==
  /\ k \in DOMAIN ones /\ ones[k].pc = "waiting"
  /\ queues[ones[k].queue] # <<>>
  /\ LET q == ones[k].queue
     IN  /\ queues' = [queues EXCEPT ![q] = Tail(@)]
         /\ ret' = [op |-> "consume_one", topic |-> ones[k].topic,
                    val |-> OneResult(queues[q])]
  /\ ones' = [ones EXCEPT ![k].pc = "done", ![k].timer = 0]
  /\ message_stats' = [message_stats EXCEPT !.total_consumed = @ + 1]
  /\ UNCHANGED <<running, topics, subscribers, message_handlers, consumers,
                 broker_tasks, tasks, cons, pending, stops, nstops, pubs,
                 delivered, lim, manager>>

\* a wait that gives up before its timeout has passed
OneExpiredEarly(k) == TRUE

\* wait_for raises TimeoutError once the timeout has passed with no message
OneExpired(k) == ones[k].timer = 0

OneTimeout(k) ==
  /\ k \in DOMAIN ones /\ ones[k].pc = "waiting"
  /\ OneExpired(k)
  /\ queues[ones[k].queue] = <<>>
  /\ ones' = [ones EXCEPT ![k].pc = "done"]
  /\ ret' = [op |-> "consume_one", topic |-> ones[k].topic, val |-> NoMsg]
  /\ UNCHANGED <<running, topics, queues, subscribers, message_handlers,
                 consumers, broker_tasks, message_stats, tasks, cons, pending,
                 stops, nstops, pubs, delivered, lim, manager>>

\* ---------------------------------------------------------------- time
Armed(r) == r.pc \in {"waiting", "sleeping"} /\ r.timer > 0
Elapse(r) == IF Armed(r) THEN [r EXCEPT !.timer = @ - 1] ELSE r

\* one polling interval passes for every timer that is running
Tick ==
  /\ \/ \E i \in DOMAIN tasks : Armed(tasks[i])
     \/ \E c \in DOMAIN cons : Armed(cons[c])
     \/ \E k \in DOMAIN ones : Armed(ones[k])
  /\ tasks' = [i \in DOMAIN tasks |-> Elapse(tasks[i])]
  /\ cons' = [c \in DOMAIN cons |-> Elapse(cons[c])]
  /\ ones' = [k \in DOMAIN ones |-> Elapse(ones[k])]
  /\ ret' = NoRet
  /\ UNCHANGED <<running, topics, queues, subscribers, message_handlers,
                 consumers, broker_tasks, message_stats, pending, stops,
                 nstops, pubs, delivered, lim, manager>>

\* ---------------------------------------------------------------- stop
UnionRange(d) == UNION {Range(d[k]) : k \in DOMAIN d}

\* the "Clear data structures" block of stop (lines 87-91)
RECURSIVE DetachAll(_, _)
DetachAll(b, S) ==
  IF S = {} THEN b
  ELSE LET t == CHOOSE x \in S : TRUE IN DetachAll(Detach(b, t), S \ {t})

Clear(b) ==
  [DetachAll(b, DOMAIN b.subscribers)
     EXCEPT !.topics = EmptyDict, !.subscribers = EmptyDict,
            !.message_handlers = EmptyDict, !.consumers = EmptyDict,
            !.broker_tasks = <<>>]

\* a stop that goes on whether or not the broker runs
StopGoesOn == FALSE

\* stop returns at once when the broker is not running (lines 52-53)
StopReturnsAtOnce == ~running

\* stop up to its await of gather (lines 52-84)
StopBegin ==
  IF StopReturnsAtOnce
  THEN /\ ret' = [op |-> "stop"]
       /\ UNCHANGED <<running, topics, queues, subscribers, message_handlers,
                      consumers, broker_tasks, message_stats, tasks, cons,
                      ones, pending, stops, nstops, pubs, delivered, lim, manager>>
  ELSE /\ nstops < lim.stops
       /\ nstops' = nstops + 1
       /\ LET ts == UnionRange(message_handlers) \cup Range(broker_tasks)
              cs == UnionRange(consumers)
              cancelled == [i \in DOMAIN tasks |->
                              IF i \in ts /\ tasks[i].pc # "done"
                              THEN [tasks[i] EXCEPT !.cancelled = TRUE]
                              ELSE tasks[i]]
              b == [Cur EXCEPT !.running = FALSE, !.tasks = cancelled]
          IN  /\ cons' = [c \in DOMAIN cons |->
                            IF c \in cs /\ cons[c].pc # "done"
                            THEN [cons[c] EXCEPT !.cancelled = TRUE]
                            ELSE cons[c]]
              /\ IF ts = {} /\ cs = {}
                 THEN /\ SetBroker(Clear(b))
                      /\ stops' = stops
                      /\ ret' = [op |-> "stop"]
                 ELSE /\ SetBroker(b)
                      /\ stops' = Append(stops, [tasks |-> ts, cons |-> cs])
                      /\ ret' = NoRet
       /\ UNCHANGED <<ones, pending, pubs, delivered, lim, manager>>

\* gather returned: every task stop awaited is done; stop clears and returns
StopEnd(k) ==
  /\ k \in DOMAIN stops
  /\ \A i \in stops[k].tasks : tasks[i].pc = "done"
  /\ \A c \in stops[k].cons : cons[c].pc = "done"
  /\ SetBroker(Clear(Cur))
  /\ stops' = SubSeq(stops, 1, k - 1) \o SubSeq(stops, k + 1, Len(stops))
  /\ ret' = [op |-> "stop"]
  /\ UNCHANGED <<cons, ones, pending, nstops, pubs, delivered, lim, manager>>

\* ------------------------------------------------ connection manager
\* ConnectionManager of server/websocket_handler.py and the endpoint of
\* server/websocket_server.py that drives it.  Time is counted in units of
\* ten seconds.  A user id is the number of the transport it was issued for
\* (uuid4: never issued twice).
Del(d, k) == [x \in DOMAIN d \ {k} |-> d[x]]

Mgr ==
  [active_connections |-> active_connections,
   user_heartbeats |-> user_heartbeats, heartbeat_tasks |-> heartbeat_tasks,
   heartbeat_running |-> heartbeat_running,
   main_heartbeat_task |-> main_heartbeat_task, loops |-> loops,
   sockets |-> sockets, casts |-> casts, written |-> {}]

SetManager(m) ==
  /\ active_connections' = m.active_connections
  /\ user_heartbeats' = m.user_heartbeats
  /\ heartbeat_tasks' = m.heartbeat_tasks
  /\ heartbeat_running' = m.heartbeat_running
  /\ main_heartbeat_task' = m.main_heartbeat_task
  /\ loops' = m.loops
  /\ sockets' = m.sockets
  /\ casts' = m.casts
  /\ written' = m.written
  /\ client' = client

\* a transport the server was offered; owed: when the oldest ping was
\* written that no refresh of the heartbeat has followed yet (Never: none)
Never == -1
NewSocket ==
  [open |-> TRUE, endpoint |-> TRUE, owed |-> Never]

\* a _user_heartbeat_loop task
NewLoop(user_id) ==
  [user |-> user_id, pc |-> "new", wake |-> 0, cancelled |-> FALSE,
   websocket |-> 0, reason |-> "none"]

\* task.cancel() unless task.done()
CancelLoop(ls, h) ==
  IF ls[h].pc # "done" THEN [ls EXCEPT ![h].cancelled = TRUE] ELSE ls

\* websocket.send_text is called on transport w
Write(m, w) == [m EXCEPT !.written = @ \cup {w}]

\* a cleanup that forgets the heartbeat task without cancelling it
CleanupKeepsTask(m, user_id) ==
  [m EXCEPT !.active_connections = Del(@, user_id),
            !.user_heartbeats = Del(@, user_id),
            !.heartbeat_tasks = Del(@, user_id)]

\* _cleanup_user_connection
CleanupUserConnection(m, user_id) ==
  [m EXCEPT !.active_connections = Del(@, user_id),
            !.user_heartbeats = Del(@, user_id),
            !.heartbeat_tasks = Del(@, user_id),
            !.loops = IF user_id \in DOMAIN m.heartbeat_tasks
                      THEN CancelLoop(@, m.heartbeat_tasks[user_id])
                      ELSE @]

\* _start_main_heartbeat
StartMainHeartbeat(m) ==
  IF m.heartbeat_running THEN m
  ELSE [m EXCEPT !.heartbeat_running = TRUE,
                 !.main_heartbeat_task = "running"]

\* _stop_main_heartbeat
StopMainHeartbeat(m) ==
  [m EXCEPT !.heartbeat_running = FALSE,
            !.main_heartbeat_task = IF @ = "running" THEN "cancelled" ELSE @]

\* _start_heartbeat_for_user
StartHeartbeatForUser(m, user_id) ==
  LET m1 == IF user_id \in DOMAIN m.heartbeat_tasks
            THEN [m EXCEPT !.loops = CancelLoop(@, m.heartbeat_tasks[user_id])]
            ELSE m
  IN  [m1 EXCEPT !.loops = Append(@, NewLoop(user_id)),
                 !.heartbeat_tasks = Put(@, user_id, Len(m1.loops) + 1)]

\* a connect that starts no heartbeat task for the new id
connectUnwatched(m, websocket, user_id, t) ==
  LET m1 == [m EXCEPT !.active_connections = Put(@, user_id, websocket),
                      !.user_heartbeats = Put(@, user_id, t)]
  IN  IF ~m1.heartbeat_running THEN StartMainHeartbeat(m1) ELSE m1

\* connect, after websocket.accept() has returned; t is time.time()
connect(m, websocket, user_id, t) ==
  LET m1 == [m EXCEPT !.active_connections = Put(@, user_id, websocket),
                      !.user_heartbeats = Put(@, user_id, t)]
      m2 == StartHeartbeatForUser(m1, user_id)
  IN  IF ~m2.heartbeat_running THEN StartMainHeartbeat(m2) ELSE m2

\* disconnect
disconnect(m, websocket) ==
  LET found == {uid \in DOMAIN m.active_connections :
                  m.active_connections[uid] = websocket}
      m1 == IF found # {}
            THEN CleanupUserConnection(m, CHOOSE uid \in found : TRUE)
            ELSE m
  IN  IF DOMAIN m1.active_connections = {} /\ m1.heartbeat_running
      THEN StopMainHeartbeat(m1) ELSE m1

\* update_user_heartbeat; t is time.time()
update_user_heartbeat(m, user_id, t) ==
  IF user_id \in DOMAIN m.active_connections
  THEN [m EXCEPT !.user_heartbeats = Put(@, user_id, t),
                 !.sockets[m.active_connections[user_id]].owed = Never]
  ELSE m

\* a send_personal_message that does not look the id up
sendUnchecked(m, user_id, sent) ==
  [m |-> m, val |-> TRUE]

\* a send_personal_message that leaves the entry of a failed write alone
sendKeepsEntry(m, user_id, sent) ==
  IF user_id \in DOMAIN m.active_connections
  THEN [m |-> Write(m, m.active_connections[user_id]), val |-> sent]
  ELSE [m |-> m, val |-> FALSE]

\* send_personal_message; sent: the transport write returns (does not raise)
send_personal_message(m, user_id, sent) ==
  IF user_id \in DOMAIN m.active_connections
  THEN LET m1 == Write(m, m.active_connections[user_id])
       IN  IF sent THEN [m |-> m1, val |-> TRUE]
           ELSE [m |-> CleanupUserConnection(m1, user_id), val |-> FALSE]
  ELSE [m |-> m, val |-> FALSE]

\* disconnect_all; failing: the connections whose close() raises
RECURSIVE CloseAll(_, _, _)
CloseAll(m, ids, failing) ==
  IF ids = {} THEN m
  ELSE LET user_id == CHOOSE x \in ids : TRUE
           m1 == IF user_id \in failing THEN m
                 ELSE CleanupUserConnection(
                        [m EXCEPT !.sockets[m.active_connections[user_id]].open = FALSE],
                        user_id)
       IN  CloseAll(m1, ids \ {user_id}, failing)

disconnect_all(m, failing) ==
  CloseAll(StopMainHeartbeat(m), DOMAIN m.active_connections, failing)

\* ---- the endpoint (websocket_endpoint, process_websocket_message)
\* the user ids a caller may name: those issued in this run and one that
\* never is
UserIds == 1..(lim.connections + 1)

\* what a peer can send: a ping naming a user id (0: no user_id field),
\* the pong that answers a server ping, a status request
Inbound ==
  {[type |-> "ping", user_id |-> u] : u \in {0} \cup UserIds}
    \cup {[type |-> "pong", user_id |-> 0], [type |-> "status", user_id |-> 0]}

\* handle_json_message: only a ping with a user_id reaches the manager
HandleJsonMessage(m, message, t) ==
  IF message.type = "ping" /\ message.user_id # 0
  THEN update_user_heartbeat(m, message.user_id, t)
  ELSE m

Connect(accepted) ==
  /\ Len(sockets) < lim.connections
  /\ LET websocket == Len(sockets) + 1
         m == [Mgr EXCEPT !.sockets =
                 Append(@, [NewSocket EXCEPT !.endpoint = accepted])]
     IN  IF accepted
         THEN /\ SetManager(connect(m, websocket, websocket, now))
              /\ ret' = [op |-> "connect", val |-> websocket]
         ELSE /\ SetManager(m)
              /\ ret' = [op |-> "connect", val |-> 0]
  /\ UNCHANGED <<now, broker>>

\* receive_text raises WebSocketDisconnect: the endpoint's finally block
PeerCloses(websocket) ==
  /\ websocket \in DOMAIN sockets /\ sockets[websocket].endpoint
  /\ SetManager(disconnect([Mgr EXCEPT !.sockets[websocket].endpoint = FALSE],
                           websocket))
  /\ ret' = [op |-> "disconnect", websocket |-> websocket,
             known |-> websocket \in Range(active_connections)]
  /\ UNCHANGED <<now, broker>>

\* receive_text returns a message; replied: the reply is written (if not,
\* the error response is tried and its failure logged)
Receive(websocket, message, replied) ==
  /\ websocket \in DOMAIN sockets /\ sockets[websocket].endpoint
  /\ LET m1 == HandleJsonMessage(Mgr, message, now)
         m2 == Write(m1, websocket)
     IN  SetManager(IF replied THEN m2 ELSE Write(m2, websocket))
  /\ ret' = [op |-> "receive", websocket |-> websocket, type |-> message.type]
  /\ UNCHANGED <<now, broker>>

SendPersonalMessage(user_id, sent) ==
  /\ LET r == send_personal_message(Mgr, user_id, sent)
     IN  /\ SetManager(r.m)
         /\ ret' = [op |-> "send_personal_message", user_id |-> user_id,
                    known |-> user_id \in DOMAIN active_connections,
                    sent |-> sent, val |-> r.val]
  /\ UNCHANGED <<now, broker>>

DisconnectAll(failing) ==
  /\ SetManager(disconnect_all(Mgr, failing))
  /\ ret' = [op |-> "disconnect_all"]
  /\ UNCHANGED <<now, broker>>

\* ---- broadcast, one action per resume
\* a broadcast call: the iterator over active_connections.items() (size:
\* the length of the dict when the iterator was made, pos: the id it
\* yielded last; ids are inserted in increasing order), the local list of
\* failed ids, what the call was asked to leave out, and for the record the
\* ids registered when it began and the ids it tried to write to
NewCast(m, exclude_user) ==
  [pc |-> "iterating", size |-> Cardinality(DOMAIN m.active_connections),
   pos |-> 0, websocket |-> 0, disconnected_users |-> {},
   exclude_user |-> exclude_user,
   initial |-> DOMAIN m.active_connections, attempted |-> {}]

RECURSIVE CleanupAll(_, _)
CleanupAll(m, ids) ==
  IF ids = {} THEN m
  ELSE LET user_id == CHOOSE x \in ids : TRUE
       IN  CleanupAll(CleanupUserConnection(m, user_id), ids \ {user_id})

\* the for loop of broadcast from the next item on, up to the next write:
\* the dict iterator raises RuntimeError when the dict has changed size,
\* which nothing in broadcast catches; after the last item the failed ids
\* are cleaned up
BroadcastNext(m, k) ==
  LET c == m.casts[k]
      rest == {u \in DOMAIN m.active_connections :
                 u > c.pos /\ u # c.exclude_user}
  IN  IF Cardinality(DOMAIN m.active_connections) # c.size
      THEN [m EXCEPT !.casts[k].pc = "raised"]
      ELSE IF rest = {}
      THEN [CleanupAll(m, c.disconnected_users) EXCEPT !.casts[k].pc = "done"]
      ELSE LET user_id == CHOOSE u \in rest : \A v \in rest : u <= v
           IN  [m EXCEPT !.casts[k].pc = "writing", !.casts[k].pos = user_id,
                         !.casts[k].websocket = m.active_connections[user_id]]

\* broadcast(message, exclude_user) up to its first write
broadcast(m, exclude_user) ==
  LET k == Len(m.casts) + 1
      m1 == [m EXCEPT !.casts = Append(@, NewCast(m, exclude_user))]
  IN  IF DOMAIN m.active_connections = {}
      THEN [m1 EXCEPT !.casts[k].pc = "done"]
      ELSE BroadcastNext(m1, k)

Broadcast(exclude_user) ==
  /\ Len(casts) < lim.casts
  /\ SetManager(broadcast(Mgr, exclude_user))
  /\ ret' = [op |-> "broadcast"]
  /\ UNCHANGED <<now, broker>>

\* the write of broadcast call k returned or raised: the loop goes on
BroadcastWritten(k, sent) ==
  /\ k \in DOMAIN casts /\ casts[k].pc = "writing"
  /\ LET c == casts[k]
         m == [Write(Mgr, c.websocket)
                 EXCEPT !.casts[k].attempted = @ \cup {c.pos},
                        !.casts[k].disconnected_users =
                          IF sent THEN @ ELSE @ \cup {c.pos}]
     IN  SetManager(BroadcastNext(m, k))
  /\ ret' = NoRet
  /\ UNCHANGED <<now, broker>>

\* ---- _user_heartbeat_loop, one action per resume
\* the head of the while loop up to the await of the ping write
LoopHead(m, h) ==
  LET user_id == m.loops[h].user
  IN  IF user_id \in DOMAIN m.active_connections /\ m.heartbeat_running
      THEN [m EXCEPT !.loops[h].pc = "pinging",
                     !.loops[h].websocket = m.active_connections[user_id]]
      ELSE [m EXCEPT !.loops[h].pc = "done"]

\* _force_disconnect_user up to its first await
ForceDisconnectUser(m, h, reason) ==
  LET user_id == m.loops[h].user
  IN  IF user_id \in DOMAIN m.active_connections
      THEN [m EXCEPT !.loops[h].pc = "notifying", !.loops[h].reason = reason,
                     !.loops[h].websocket = m.active_connections[user_id]]
      ELSE [CleanupUserConnection(m, user_id)
              EXCEPT !.loops[h].pc = "done", !.loops[h].reason = reason]

Resumable(h) == h \in DOMAIN loops /\ ~loops[h].cancelled

HbStart(h) ==
  /\ Resumable(h) /\ loops[h].pc = "new"
  /\ SetManager(LoopHead(Mgr, h))
  /\ ret' = NoRet
  /\ UNCHANGED <<now, broker>>

\* the ping write returned or raised
HbPinged(h, outcome) ==
  /\ Resumable(h) /\ loops[h].pc = "pinging"
  /\ LET w == loops[h].websocket
         m == Write(Mgr, w)
     IN  SetManager(
           IF outcome = "sent"
           THEN [m EXCEPT !.loops[h].pc = "sleeping",
                          !.loops[h].wake = now + heartbeat_interval,
                          !.sockets[w].owed = IF @ = Never THEN now ELSE @]
           ELSE IF outcome = "WebSocketDisconnect"
           THEN [m EXCEPT !.loops[h].pc = "done"]
           ELSE ForceDisconnectUser(m, h, "heartbeat_error"))
  /\ ret' = NoRet
  /\ UNCHANGED <<now, broker>>

\* the heartbeat check of lines 174-175
HeartbeatExpired(m, user_id, t) ==
  LET last_heartbeat == IF user_id \in DOMAIN m.user_heartbeats
                        THEN m.user_heartbeats[user_id] ELSE 0
  IN  t - last_heartbeat > heartbeat_interval + ping_timeout

\* asyncio.sleep(heartbeat_interval) is over
HbWake(h) ==
  /\ Resumable(h) /\ loops[h].pc = "sleeping" /\ loops[h].wake <= now
  /\ SetManager(IF HeartbeatExpired(Mgr, loops[h].user, now)
                THEN ForceDisconnectUser(Mgr, h, "heartbeat_timeout")
                ELSE LoopHead(Mgr, h))
  /\ ret' = NoRet
  /\ UNCHANGED <<now, broker>>

\* the write of the disconnect notification returned or raised
HbNotified(h, sent) ==
  /\ Resumable(h) /\ loops[h].pc = "notifying"
  /\ SetManager([Write(Mgr, loops[h].websocket) EXCEPT !.loops[h].pc = "closing"])
  /\ ret' = NoRet
  /\ UNCHANGED <<now, broker>>

\* websocket.close(code=1011) returned or raised
HbClosed(h, closed) ==
  /\ Resumable(h) /\ loops[h].pc = "closing"
  /\ SetManager(
       IF closed
       THEN [CleanupUserConnection(
               [Mgr EXCEPT !.sockets[loops[h].websocket].open = FALSE],
               loops[h].user)
               EXCEPT !.loops[h].pc = "done", !.loops[h].cancelled = FALSE]
       ELSE [Mgr EXCEPT !.loops[h].pc = "done"])
  /\ ret' = NoRet
  /\ UNCHANGED <<now, broker>>

\* CancelledError is raised at the await the task is suspended in.  In the
\* notification write the bare `except:` of line 220 swallows it.
HbCancelled(h) ==
  /\ h \in DOMAIN loops /\ loops[h].cancelled /\ loops[h].pc # "done"
  /\ loops' = IF loops[h].pc = "notifying"
              THEN [loops EXCEPT ![h].pc = "closing", ![h].cancelled = FALSE]
              ELSE [loops EXCEPT ![h].pc = "done"]
  /\ ret' = NoRet
  /\ written' = {}
  /\ UNCHANGED <<active_connections, user_heartbeats, heartbeat_tasks,
                 heartbeat_running, main_heartbeat_task, sockets, casts, now,
                 client, broker>>

\* a loop that has nothing to do before the clock moves on
Settled(h) ==
  \/ loops[h].pc = "done"
  \/ loops[h].pc = "sleeping" /\ ~loops[h].cancelled /\ loops[h].wake > now

\* ten seconds pass
Advance ==
  /\ now < lim.time
  /\ \A h \in DOMAIN loops : Settled(h)
  /\ now' = now + 1
  /\ ret' = NoRet
  /\ written' = {}
  /\ UNCHANGED <<active_connections, user_heartbeats, heartbeat_tasks,
                 heartbeat_running, main_heartbeat_task, loops, sockets,
                 casts, client, broker>>

Endpoint ==
  \/ \E accepted \in BOOLEAN : Connect(accepted)
  \/ \E w \in DOMAIN sockets : PeerCloses(w)
  \/ \E w \in DOMAIN sockets, message \in Inbound, replied \in BOOLEAN :
       Receive(w, message, replied)

Senders ==
  \/ \E user_id \in UserIds, sent \in BOOLEAN :
       SendPersonalMessage(user_id, sent)
  \/ \E failing \in SUBSET DOMAIN active_connections : DisconnectAll(failing)

Heartbeat ==
  \/ \E h \in DOMAIN loops : HbStart(h)
  \/ \E h \in DOMAIN loops,
        outcome \in {"sent", "WebSocketDisconnect", "Exception"} :
       HbPinged(h, outcome)
  \/ \E h \in DOMAIN loops : HbWake(h)
  \/ \E h \in DOMAIN loops, sent \in BOOLEAN : HbNotified(h, sent)
  \/ \E h \in DOMAIN loops, closed \in BOOLEAN : HbClosed(h, closed)
  \/ \E h \in DOMAIN loops : HbCancelled(h)

\* ------------------------------------------------- response routing
\* the topic of api_gateway's listener (protocols.message_types) and the
\* callback websocket_server subscribes to the query responses
ORCHESTRATOR_RESPONSE == "orchestrator_response"
QueryResponseHandler == "handle_query_response_from_broker"

\* a response addressed to a user id
Responses == {[user_id |-> u] : u \in 1..2}

\* websocket_manager.send_message_to_user(user_id=..., message=...):
\* ConnectionManager defines no attribute of that name, so the lookup
\* raises AttributeError before anything is awaited
send_message_to_user(m, user_id) == [m |-> m, val |-> "AttributeError"]

\* a listener whose loop body lets what is raised end the task
ListenerLetsThrough(val) == FALSE

\* `except Exception as e` around the body of the listener's loop
ListenerCatches(val) == val # "CancelledError"

\* one turn of `async for response_dict in message_broker.consume(...)` in
\* _websocket_response_listener: the body for the message consume yielded,
\* then the request for the next one
ListenerHandles(c) ==
  /\ Consuming(c) /\ cons[c].pc = "yielded"
  /\ cons[c].topic = ORCHESTRATOR_RESPONSE
  /\ LET response_message == cons[c].got[Len(cons[c].got)]
         r == send_message_to_user(Mgr, response_message.user_id)
     IN  /\ SetManager(r.m)
         /\ ret' = [op |-> "listener", user_id |-> response_message.user_id,
                    known |-> response_message.user_id
                                \in DOMAIN active_connections,
                    val |-> r.val]
         /\ IF r.val \in {"True", "False"} \/ ListenerCatches(r.val)
            THEN IF ConsumeGoesOn THEN ConsumeWait(c)
                 ELSE ConsumeEnd(c, "ended")
            ELSE /\ consumers' = consumers
                 /\ cons' = [cons EXCEPT ![c].pc = "closing"]
  /\ UNCHANGED <<running, topics, queues, subscribers, message_handlers,
                 broker_tasks, message_stats, tasks, ones, pending, stops,
                 nstops, pubs, delivered, lim, now>>

\* handle_query_response_from_broker: the transport is looked up in
\* active_connections and written to; what send_text raises is logged
handle_query_response_from_broker(m, message, sent) ==
  IF message.user_id \in DOMAIN m.active_connections
  THEN Write(m, m.active_connections[message.user_id])
  ELSE m

\* the dispatch task runs _call_subscriber for that callback
DispatchCallHandler(i, sent) ==
  /\ Runnable(i) /\ tasks[i].pc = "gathering" /\ tasks[i].todo # <<>>
  /\ Head(tasks[i].todo) = QueryResponseHandler
  /\ SetManager(handle_query_response_from_broker(Mgr, tasks[i].msg, sent))
  /\ tasks' = [tasks EXCEPT ![i] = RunCall(@, FALSE)]
  /\ ret' = [op |-> "handler", user_id |-> tasks[i].msg.user_id,
             known |-> tasks[i].msg.user_id \in DOMAIN active_connections,
             val |-> IF tasks[i].msg.user_id \in DOMAIN active_connections
                        /\ sent
                     THEN "True" ELSE "False"]
  /\ UNCHANGED <<running, topics, queues, subscribers, message_handlers,
                 consumers, broker_tasks, message_stats, cons, ones, pending,
                 stops, nstops, pubs, delivered, lim, now>>

\* ------------------------------------------------------- the client
\* ConnectionManager of client/connection_manager.py.  client.wss holds
\* the websockets ever opened (TRUE: open), client.websocket the index of
\* self.websocket (0: None), client.event connection_established_event.
max_reconnect_attempts == 3

serverside == <<active_connections, user_heartbeats, heartbeat_tasks,
                heartbeat_running, main_heartbeat_task, loops, sockets,
                casts, now, written>>

\* _is_websocket_open
IsWebsocketOpen(c) == c.websocket # 0 /\ c.wss[c.websocket]

RECURSIVE handle_connection_error(_, _, _)

\* a task has ended
Ended(c, t) ==
  [c EXCEPT !.threads[t] = [NewThread(c.threads[t].kind) EXCEPT !.pc = "done"]]

\* the finally block of _receive_loop
ReceiveFinally(c, t) ==
  IF c.is_connected THEN handle_connection_error(c, t, "end")
  ELSE Ended(c, t)

\* the head of the while loop of _receive_loop
ReceiveLoopHead(c, t) ==
  IF IsWebsocketOpen(c)
  THEN [c EXCEPT !.threads[t].pc = "receiving", !.threads[t].ws = c.websocket]
  ELSE ReceiveFinally(c, t)

\* the coroutine a task was in returns to the one that awaited it: to the
\* user, to the finally block of the receive loop, or into that loop
Back(c, t, after) ==
  LET c1 == [c EXCEPT !.threads[t].chain = "none",
                      !.threads[t].after = "none", !.threads[t].ws = 0]
  IN  IF after = "idle" THEN [c1 EXCEPT !.threads[t].pc = "idle"]
      ELSE IF after = "end" THEN Ended(c1, t)
      ELSE ReceiveLoopHead(c1, t)

\* what a connect() or a _handle_connection_error() did, with the two
\* fields as the call found them (a connect(): as it left them); c.last
\* lists the calls of one step
Note(c, op, val) ==
  [c EXCEPT !.last = Append(@, [op |-> op, val |-> val,
                                is_connected |-> c.is_connected,
                                reconnect_attempts |-> c.reconnect_attempts])]

\* a handler that tries again however many attempts were made
handleWithoutLimit(c, t, after) ==
  IF ~c.is_connected
  THEN Back(Note(c, "connection_error", "ignored"), t, after)
  ELSE [Note(c, "connection_error", "reconnecting")
          EXCEPT !.is_connected = FALSE, !.reconnect_attempts = @ + 1,
                 !.threads[t].pc = "backoff", !.threads[t].after = after,
                 !.threads[t].chain = "reconnect"]

\* _handle_connection_error up to its sleep
handle_connection_error(c, t, after) ==
  IF ~c.is_connected
  THEN Back(Note(c, "connection_error", "ignored"), t, after)
  ELSE IF c.reconnect_attempts < lim.max_reconnect_attempts
  THEN [Note(c, "connection_error", "reconnecting")
          EXCEPT !.is_connected = FALSE, !.reconnect_attempts = @ + 1,
                 !.threads[t].pc = "backoff", !.threads[t].after = after,
                 !.threads[t].chain = "reconnect"]
  ELSE Back([Note(c, "connection_error", "gave_up")
               EXCEPT !.is_connected = FALSE], t, after)

\* connect() returns to the user or to _handle_connection_error, which
\* only logs the outcome
ConnectReturns(c, t, success) ==
  LET c1 == Note(c, "connect", IF success THEN "True" ELSE "False")
  IN  IF c.threads[t].chain = "reconnect"
      THEN Back(c1, t, c.threads[t].after)
      ELSE Back(c1, t, "idle")

\* the three places where connect() finds itself connected
Connected(c, t) ==
  ConnectReturns([c EXCEPT !.is_connected = TRUE, !.reconnect_attempts = 0],
                 t, TRUE)

\* connect() up to the await of websockets.connect
ClientConnectBegin(c, t, chain) ==
  [c EXCEPT !.event = FALSE, !.threads[t].pc = "connecting",
            !.threads[t].chain = chain]

\* disconnect() after the receive task it cancelled has ended, up to the
\* await of websocket.close()
DisconnectClose(c, t) ==
  IF c.websocket # 0
  THEN [c EXCEPT !.threads[t].pc = "closing", !.threads[t].ws = c.websocket]
  ELSE ConnectReturns([c EXCEPT !.event = FALSE], t, FALSE)

\* disconnect() as connect() calls it, up to its first await
ClientDisconnect(c, t) ==
  LET c1 == [c EXCEPT !.is_connected = FALSE]
      r == c.receive_task
  IN  IF r # 0 /\ c.threads[r].pc # "done"
      THEN [c1 EXCEPT !.threads[r].cancelled = TRUE,
                      !.threads[t].pc = "joining", !.threads[t].ws = r]
      ELSE DisconnectClose(c1, t)

\* ---- one action per resume of a client task; c.last is what a call
\* returned in the step
ClientStep(c) ==
  /\ client' = [c EXCEPT !.last = <<>>]
  /\ ret' = [op |-> "client", calls |-> c.last]
  /\ UNCHANGED <<serverside, broker>>

\* the user calls connect()
ClientConnect ==
  /\ client.threads[1].pc = "idle"
  /\ ClientStep(ClientConnectBegin(client, 1, "call"))

\* websockets.connect returned a websocket, or timed out or raised
ClientOpened(t, opened) ==
  /\ t \in DOMAIN client.threads /\ ~client.threads[t].cancelled
  /\ client.threads[t].pc = "connecting"
  /\ opened => Len(client.threads) <= lim.tasks
  /\ ClientStep(
       IF opened
       THEN [client EXCEPT !.wss = Append(@, TRUE),
                           !.websocket = Len(client.wss) + 1,
                           !.threads = Append([@ EXCEPT ![t].pc = "settling"],
                                              NewThread("receive")),
                           !.receive_task = Len(client.threads) + 1]
       ELSE ConnectReturns(client, t, FALSE))

\* the sleep of 0.5 s is over: connect() waits for the event
ClientSettled(t) ==
  /\ t \in DOMAIN client.threads /\ ~client.threads[t].cancelled
  /\ client.threads[t].pc = "settling"
  /\ ClientStep([client EXCEPT !.threads[t].pc = "awaiting"])

\* the event is set, or the 5 s are over
ClientAwaited(t) ==
  /\ t \in DOMAIN client.threads /\ ~client.threads[t].cancelled
  /\ client.threads[t].pc = "awaiting"
  /\ ClientStep(IF client.event \/ IsWebsocketOpen(client)
                THEN Connected(client, t)
                ELSE ClientDisconnect(client, t))

\* the receive task disconnect() awaits has ended
ClientJoined(t) ==
  /\ t \in DOMAIN client.threads /\ client.threads[t].pc = "joining"
  /\ \/ client.threads[client.threads[t].ws].pc = "done"
     \/ client.threads[t].cancelled
  /\ ClientStep(DisconnectClose([client EXCEPT !.threads[t].cancelled = FALSE],
                                t))

\* websocket.close() returned or raised
ClientClosed(t) ==
  /\ t \in DOMAIN client.threads /\ ~client.threads[t].cancelled
  /\ client.threads[t].pc = "closing"
  /\ ClientStep(ConnectReturns(
       [client EXCEPT !.wss[client.threads[t].ws] = FALSE, !.websocket = 0,
                      !.event = FALSE], t, FALSE))

\* the receive task runs for the first time
ClientReceiveStart(t) ==
  /\ t \in DOMAIN client.threads /\ ~client.threads[t].cancelled
  /\ client.threads[t].pc = "new"
  /\ ClientStep(ReceiveLoopHead(client, t))

\* send_json up to the await of websocket.send
SendBegin(c, t, after) ==
  IF ~c.is_connected \/ c.websocket = 0
  THEN Back(c, t, after)
  ELSE [c EXCEPT !.threads[t].pc = "sending", !.threads[t].after = after,
                 !.threads[t].ws = c.websocket]

\* recv() returned a message, timed out or raised.  On a timeout the loop
\* sends a ping with send_json if the websocket is open.
ClientReceived(t, what) ==
  /\ t \in DOMAIN client.threads /\ ~client.threads[t].cancelled
  /\ client.threads[t].pc = "receiving"
  /\ client.wss[client.threads[t].ws] \/ what \in {"closed", "error"}
  /\ ClientStep(
       IF what = "connection_established"
       THEN ReceiveLoopHead([client EXCEPT !.event = TRUE], t)
       ELSE IF what = "pong"
       THEN ReceiveLoopHead(client, t)
       ELSE IF what = "timeout"
       THEN IF IsWebsocketOpen(client)
            THEN SendBegin(client, t, "loop")
            ELSE ReceiveLoopHead(client, t)
       ELSE ReceiveFinally(
              [client EXCEPT !.wss[client.threads[t].ws] =
                               IF what = "closed" THEN FALSE ELSE @], t))

\* the sleep of reconnect_delay is over: the handler calls connect()
ClientBackoffOver(t) ==
  /\ t \in DOMAIN client.threads /\ ~client.threads[t].cancelled
  /\ client.threads[t].pc = "backoff"
  /\ ClientStep(ClientConnectBegin(client, t, "reconnect"))

\* the user calls send_json or send_text
ClientSend ==
  /\ client.threads[1].pc = "idle"
  /\ ClientStep(SendBegin(client, 1, "idle"))

\* websocket.send returned (sent) or raised: the failure is a connection
\* error, handled before send_json returns False
ClientWritten(t, sent) ==
  /\ t \in DOMAIN client.threads /\ ~client.threads[t].cancelled
  /\ client.threads[t].pc = "sending"
  /\ sent => client.wss[client.threads[t].ws]
  /\ ClientStep(
       IF sent
       THEN Back(client, t, client.threads[t].after)
       ELSE handle_connection_error(client, t, client.threads[t].after))

\* the server side closes a websocket the client still holds (one it has
\* dropped is never looked at again)
ServerCloses(w) ==
  /\ w \in DOMAIN client.wss /\ client.wss[w]
  /\ \/ w = client.websocket
     \/ \E t \in DOMAIN client.threads :
          client.threads[t].pc \in {"receiving", "sending", "closing"}
            /\ client.threads[t].ws = w
  /\ ClientStep([client EXCEPT !.wss[w] = FALSE])

\* CancelledError is raised at the await a cancelled receive task is
\* suspended in.  No `except Exception` catches it: inside the try of
\* _receive_loop (in recv(), or in the handler the ping called) the finally
\* block still runs, in `await self.receive_task` of disconnect() it is
\* swallowed (ClientJoined), anywhere else it ends the task.
ClientCancelled(t) ==
  /\ t \in DOMAIN client.threads /\ client.threads[t].cancelled
  /\ client.threads[t].pc \notin {"done", "joining"}
  /\ ClientStep(
       IF client.threads[t].pc = "receiving" \/ client.threads[t].after = "loop"
       THEN ReceiveFinally(
              [client EXCEPT !.threads[t].cancelled = FALSE,
                             !.threads[t].chain = "none",
                             !.threads[t].after = "none",
                             !.threads[t].ws = 0], t)
       ELSE Ended(client, t))

Client ==
  \/ ClientConnect
  \/ \E t \in DOMAIN client.threads, opened \in BOOLEAN : ClientOpened(t, opened)
  \/ \E t \in DOMAIN client.threads : ClientSettled(t)
  \/ \E t \in DOMAIN client.threads : ClientAwaited(t)
  \/ \E t \in DOMAIN client.threads : ClientJoined(t)
  \/ \E t \in DOMAIN client.threads : ClientClosed(t)
  \/ \E t \in DOMAIN client.threads : ClientReceiveStart(t)
  \/ \E t \in DOMAIN client.threads,
        what \in {"connection_established", "pong", "timeout", "closed",
                  "error"} : ClientReceived(t, what)
  \/ \E t \in DOMAIN client.threads : ClientBackoffOver(t)
  \/ ClientSend
  \/ \E t \in DOMAIN client.threads, sent \in BOOLEAN : ClientWritten(t, sent)
  \/ \E w \in DOMAIN client.wss : ServerCloses(w)
  \/ \E t \in DOMAIN client.threads : ClientCancelled(t)

\* ----------------------------------------------------- specifications
Dispatch ==
  \/ \E i \in DOMAIN tasks : DispatchStart(i)
  \/ \E i \in DOMAIN tasks : DispatchWake(i)
  \/ \E i \in DOMAIN tasks : DispatchGet(i)
  \/ \E i \in DOMAIN tasks, raised \in BOOLEAN : DispatchCall(i, raised)
  \/ \E i \in DOMAIN tasks : DispatchFinish(i)
  \/ \E i \in DOMAIN tasks : DispatchTimeout(i)

PubSub ==
  \/ Start
  \/ \E t \in lim.topics, m \in lim.payloads : Publish(t, m)
  \/ \E t \in lim.topics, cb \in lim.callbacks : Subscribe(t, cb)
  \/ \E t \in lim.topics, cb \in lim.callbacks : Unsubscribe(t, cb)
  \/ RunPending

Consume ==
  \/ \E t \in lim.topics, to \in lim.timeouts : ConsumeStart(t, to)
  \/ \E c \in DOMAIN cons : ConsumeGet(c)
  \/ \E c \in DOMAIN cons : ConsumeNext(c)
  \/ \E c \in DOMAIN cons : ConsumeTimeout(c)

ConsumeLeave ==
  \/ \E c \in DOMAIN cons : ConsumeAbandon(c)
  \/ \E c \in DOMAIN cons : ConsumeClose(c)
  \/ \E c \in DOMAIN cons : ConsumerExit(c)

ConsumeOne ==
  \/ \E t \in lim.topics, to \in lim.timeouts \ {None} : OneStart(t, to)
  \/ \E k \in DOMAIN ones : OneGet(k)
  \/ \E k \in DOMAIN ones : OneTimeout(k)

Stop ==
  \/ StopBegin
  \/ \E k \in DOMAIN stops : StopEnd(k)
  \/ \E i \in DOMAIN tasks : DispatchCancelled(i)

StopConsumers ==
  \/ \E c \in DOMAIN cons : ConsumeCancelled(c)

CancelConsumers ==
  \/ \E c \in DOMAIN cons : CancelConsumer(c)

\* Fan-out: callers subscribe, unsubscribe and publish on a well-known
\* topic, or on a topic that start() does not create, or publish more
\* messages than a queue holds.
FanoutProfiles ==
  {Profile({QUERY_RESPONSE}, Callbacks, {[text |-> "hi"]}, {None},
           MaxPublish, MaxTasks, 0, 0, 0),
   Profile({"t1"}, {"cb1"}, Payloads, {None}, MaxPublish, MaxTasks, 0, 0, 0),
   Profile({QUERY_RESPONSE}, {"cb1"}, {[text |-> "hi"]}, {None},
           max_queue_size + 1, MaxTasks, 0, 0, 0)}

Init == InitFor(FanoutProfiles)
Next == PubSub \/ Dispatch \/ Tick
Spec == Init /\ [][Next]_vars

\* Every kind of call on one topic: beside a subscriber, one consume
\* sequence or one consume_one call.
MixedProfiles ==
  {Profile({QUERY_RESPONSE}, {"cb1"}, {[text |-> "hi"]}, {None},
           MaxPublish, MaxTasks, 1, 0, 0),
   Profile({QUERY_RESPONSE}, {"cb1"}, {[text |-> "hi"]}, 1..MaxTimeout,
           MaxPublish, MaxTasks, 0, 1, 0)}

InitMixed == InitFor(MixedProfiles)
NextMixed == PubSub \/ Dispatch \/ Consume \/ ConsumeOne \/ Tick
SpecMixed == InitMixed /\ [][NextMixed]_vars

\* Competing consumers: several consume sequences on one topic.
ConsumeProfiles ==
  {Profile({QUERY_RESPONSE}, {"cb1"}, {[text |-> "hi"]}, {None},
           MaxPublish, MaxTasks, MaxConsumers, 0, 0)}

InitConsume == InitFor(ConsumeProfiles)
NextConsume == PubSub \/ Dispatch \/ Consume \/ Tick
SpecConsume == InitConsume /\ [][NextConsume]_vars

\* Lifecycle: callers also stop and restart the broker; one publish may
\* get past the running check.
LifecycleProfiles ==
  {Profile({QUERY_RESPONSE}, {"cb1"}, {[text |-> "hi"]}, {None},
           1, MaxTasks, 0, 0, MaxStops)}

InitLifecycle == InitFor(LifecycleProfiles)
NextLifecycle == PubSub \/ Dispatch \/ Stop \/ Tick
SpecLifecycle == InitLifecycle /\ [][NextLifecycle]_vars

\* Restart: a caller starts the broker again while stop() still waits for
\* the tasks it cancelled, and callers subscribe and publish meanwhile.
RestartPublish == 2
RestartTasks == 3
RestartProfiles ==
  {Profile({QUERY_RESPONSE}, {"cb1"}, {[text |-> "hi"]}, {None},
           RestartPublish, RestartTasks, 0, 0, MaxStops)}

InitRestart == InitFor(RestartProfiles)
NextRestart == PubSub \/ Dispatch \/ Stop \/ Tick
SpecRestart == InitRestart /\ [][NextRestart]_vars

\* Leaving: one consume sequence, with or without a timeout, that the
\* caller abandons or cancels or that a stop of the broker ends.
LeaveProfiles ==
  {[Profile({QUERY_RESPONSE}, {"cb1"}, {[text |-> "hi"]}, {None, MaxTimeout},
            1, 1, 1, 0, MaxStops) EXCEPT !.pending = 1]}

InitLeave == InitFor(LeaveProfiles)
NextLeave ==
  \/ PubSub \/ Dispatch \/ Consume \/ ConsumeLeave \/ CancelConsumers
  \/ Stop \/ StopConsumers \/ Tick
SpecLeave == InitLeave /\ [][NextLeave]_vars

\* Heartbeat: a connection is accepted, sends, is sent to and goes away
\* while its heartbeat loop runs against the clock.
\* what the peers and the users of the manager do in a run: how many
\* connections are offered and for how long the clock runs
ManagerProfile(connections, time) ==
  [connections |-> connections, time |-> time]

InitHeartbeat == InitFor({ManagerProfile(1, MaxTime)})
NextHeartbeat == Endpoint \/ Senders \/ Heartbeat \/ Advance
SpecHeartbeat == InitHeartbeat /\ [][NextHeartbeat]_vars

\* Registry: two connections come and go within one tick of the clock.
InitRegistry == InitFor({ManagerProfile(2, 1)})
NextRegistry ==
  \/ Endpoint \/ Senders \/ Advance
  \/ \E h \in DOMAIN loops : HbStart(h)
  \/ \E h \in DOMAIN loops,
        outcome \in {"sent", "WebSocketDisconnect", "Exception"} :
       HbPinged(h, outcome)
  \/ \E h \in DOMAIN loops, sent \in BOOLEAN : HbNotified(h, sent)
  \/ \E h \in DOMAIN loops, closed \in BOOLEAN : HbClosed(h, closed)
  \/ \E h \in DOMAIN loops : HbCancelled(h)
SpecRegistry == InitRegistry /\ [][NextRegistry]_vars

\* Topics: every kind of call names a topic that start() does not create,
\* beside the one it creates, before and after a stop.
TopicsProfiles ==
  {[Profile({"t1"}, {"cb1"}, {[text |-> "hi"]}, {1},
            1, 1, 1, 1, 1) EXCEPT !.pending = 1]}

InitTopics == InitFor(TopicsProfiles)
NextTopics ==
  \/ PubSub \/ Dispatch \/ Consume \/ ConsumeOne \/ Stop \/ StopConsumers
  \/ Tick
SpecTopics == InitTopics /\ [][NextTopics]_vars

\* Idling: one callback subscribes and unsubscribes on a well-known topic.
\* The event loop runs a task that is ready and lets a timer that was set
\* expire: the dispatch steps and the clock are weakly fair; the callers
\* may stop calling at any point.
IdleProfiles ==
  {Profile({QUERY_RESPONSE}, {"cb1"}, {[text |-> "hi"]}, {None},
           MaxPublish, MaxTasks, 0, 0, 0)}

InitIdle == InitFor(IdleProfiles)
NextIdle == PubSub \/ Dispatch \/ Tick
SpecIdle ==
  InitIdle /\ [][NextIdle]_vars /\ WF_vars(Dispatch) /\ WF_vars(Tick)

\* Loops: two callbacks subscribe, several times before the scheduled
\* setup has run, unsubscribe and publish on a topic that start() creates
\* or on one that it does not, with room for three dispatch tasks.
LoopsProfiles ==
  {[Profile({t}, Callbacks, {[text |-> "hi"]}, {None}, 1, 3, 0, 0, 0)
      EXCEPT !.pending = 2] : t \in Topics}

InitLoops == InitFor(LoopsProfiles)
NextLoops == PubSub \/ Dispatch \/ Tick
SpecLoops == InitLoops /\ [][NextLoops]_vars

\* Routing: responses addressed to two user ids are published to the
\* listener's topic and to the handler's while connections come and go.
RouterProfiles ==
  {Profile({ORCHESTRATOR_RESPONSE, QUERY_RESPONSE}, {QueryResponseHandler},
           Responses, {None}, 2, 2, 1, 0, 0) @@ ManagerProfile(2, 0)}

InitRouter == InitFor(RouterProfiles)
NextRouter ==
  \/ Start
  \/ \E t \in lim.topics, m \in lim.payloads : Publish(t, m)
  \/ Subscribe(QUERY_RESPONSE, QueryResponseHandler)
  \/ RunPending
  \/ \E i \in DOMAIN tasks : DispatchStart(i)
  \/ \E i \in DOMAIN tasks : DispatchWake(i)
  \/ \E i \in DOMAIN tasks : DispatchGet(i)
  \/ \E i \in DOMAIN tasks, sent \in BOOLEAN : DispatchCallHandler(i, sent)
  \/ \E i \in DOMAIN tasks : DispatchFinish(i)
  \/ \E i \in DOMAIN tasks : DispatchTimeout(i)
  \/ ConsumeStart(ORCHESTRATOR_RESPONSE, None)
  \/ \E c \in DOMAIN cons : ConsumeGet(c)
  \/ \E c \in DOMAIN cons : ListenerHandles(c)
  \/ \E c \in DOMAIN cons : ConsumeTimeout(c)
  \/ Tick
  \/ \E accepted \in BOOLEAN : Connect(accepted)
  \/ \E w \in DOMAIN sockets : PeerCloses(w)
SpecRouter == InitRouter /\ [][NextRouter]_vars

\* Counters: on one topic a subscriber and either a consume_one call with
\* more publishes than a queue holds, or a consume sequence and a stop.
CountersProfiles ==
  {Profile({QUERY_RESPONSE}, {"cb1"}, {[text |-> "hi"]}, {1},
           max_queue_size + 1, 1, 0, 1, 0),
   Profile({QUERY_RESPONSE}, {"cb1"}, {[text |-> "hi"]}, {1},
           1, 1, 1, 0, 1)}

InitCounters == InitFor(CountersProfiles)
NextCounters ==
  \/ PubSub \/ Dispatch \/ Consume \/ ConsumeOne \/ Stop \/ StopConsumers
  \/ Tick
SpecCounters == InitCounters /\ [][NextCounters]_vars

\* Broadcast: peers connect and close while a broadcast call goes round
\* the connections, with or without an id to leave out.
BroadcastProfiles == {ManagerProfile(3, 0) @@ [casts |-> 1]}

InitBroadcast == InitFor(BroadcastProfiles)
NextBroadcast ==
  \/ \E accepted \in BOOLEAN : Connect(accepted)
  \/ \E w \in DOMAIN sockets : PeerCloses(w)
  \/ \E exclude_user \in {None, 1} : Broadcast(exclude_user)
  \/ \E k \in DOMAIN casts, sent \in BOOLEAN : BroadcastWritten(k, sent)
SpecBroadcast == InitBroadcast /\ [][NextBroadcast]_vars

\* Client: a user connects and sends while the server closes websockets
\* at will; max_reconnect_attempts as the class sets it, and 0, where no
\* reconnection opens a websocket and one receive task fewer is needed.
MaxClientTasks == 2
ClientProfiles ==
  {[max_reconnect_attempts |-> max_reconnect_attempts, tasks |-> MaxClientTasks],
   [max_reconnect_attempts |-> 0, tasks |-> MaxClientTasks - 1]}

InitClient == InitFor(ClientProfiles)
SpecClient == InitClient /\ [][Client]_vars

\* ------------------------------------------------------------- claims
\* the queue of a topic as the topic map has it
QueueOf(ts, qs, topic) == IF topic \in DOMAIN ts THEN qs[ts[topic]] ELSE <<>>

\* the step is a publish call that got past the running check while the
\* topic had neither a subscriber nor a consumer
PublishUnreadStep ==
  /\ ret'.op = "publish"
  /\ running
  /\ ~HasSubscribers(Cur, ret'.topic)
  /\ ~HasConsumers(Cur, ret'.topic)

\* C1 as stated: a publish on a running broker to a topic with no
\* subscriber and no active consumer returns failure and the topic's queue
\* is empty after the call.
C1_UnreadPublishLeavesQueueEmpty ==
  [][PublishUnreadStep =>
       /\ ret'.val = FALSE
       /\ QueueOf(topics', queues', ret'.topic) = <<>>]_vars

\* C1 as the code has it: such a publish returns failure and enqueues
\* nothing; the queue keeps the messages it held before the call.
C1_UnreadPublishLeavesQueueUnchanged ==
  [][PublishUnreadStep =>
       /\ ret'.val = FALSE
       /\ QueueOf(topics', queues', ret'.topic)
            = QueueOf(topics, queues, ret'.topic)
       /\ message_stats'.total_published = message_stats.total_published]_vars

\* a refused publish to a topic nobody reads whose queue still holds a message
C1_Witness ==
  /\ ret.op = "publish" /\ ret.val = FALSE /\ running
  /\ ~HasSubscribers(Cur, ret.topic) /\ ~HasConsumers(Cur, ret.topic)
  /\ QueueOf(topics, queues, ret.topic) # <<>>

\* C2: on a running broker a publish that directly follows a successful
\* subscribe on the same topic, with room in the queue, returns success,
\* whatever the topic name.
C2_PublishAfterSubscribeSucceeds ==
  [][(/\ ret.op = "subscribe" /\ ret.val = TRUE
      /\ ret'.op = "publish" /\ ret'.topic = ret.topic
      /\ running
      /\ ~QueueFull(QueueOf(topics, queues, ret.topic)))
     => ret'.val = TRUE]_vars

\* the publish ordinals of the messages a callback was invoked with
Ordinals(cb) == [k \in DOMAIN delivered[cb] |-> delivered[cb][k]._broker_timestamp]

\* C3: no subscriber is invoked with a message of a topic before a message
\* that was published earlier on that topic.
C3_SubscriberSeesPublishOrder ==
  \A cb \in Callbacks :
    \A j, k \in DOMAIN delivered[cb] :
      (j < k /\ delivered[cb][j]._broker_topic = delivered[cb][k]._broker_topic)
        => Ordinals(cb)[j] < Ordinals(cb)[k]

\* the consume sequences on a topic that are waiting or hold a message
ActiveConsumers(topic) ==
  {c \in DOMAIN cons : cons[c].topic = topic /\ cons[c].pc \in {"waiting", "yielded"}}

\* C4: while two consume sequences are active on a topic without
\* subscribers, every message that leaves the topic's queue is yielded to
\* exactly one of them, so that the two together receive each published
\* message once.
C4_ConsumersShareEveryMessage ==
  [][\A t \in DOMAIN topics :
       (/\ Cardinality(ActiveConsumers(t)) = 2
        /\ ~HasSubscribers(Cur, t)
        /\ t \in DOMAIN topics'
        /\ topics'[t] = topics[t]
        /\ Len(queues'[topics[t]]) < Len(queues[topics[t]]))
       => \E c \in ActiveConsumers(t) :
            /\ cons'[c].got = Append(cons[c].got, Head(queues[topics[t]]))
            /\ \A d \in ActiveConsumers(t) \ {c} : cons'[d].got = cons[d].got]_vars

\* the step is a publish call on a running broker to a topic that has a
\* reader and whose queue holds max_queue_size messages
PublishFullStep ==
  /\ ret'.op = "publish"
  /\ running
  /\ HasSubscribers(Cur, ret'.topic) \/ HasConsumers(Cur, ret'.topic)
  /\ Len(QueueOf(topics, queues, ret'.topic)) >= max_queue_size

\* C5: no queue ever holds more than max_queue_size messages, and a publish
\* to a full queue returns failure in the same step, enqueues nothing and
\* leaves every queue as it was.
C5_FullQueueRefusesPublish ==
  /\ [](\A q \in DOMAIN queues : Len(queues[q]) <= max_queue_size)
  /\ [][PublishFullStep =>
          /\ ret'.val = FALSE
          /\ queues' = queues
          /\ message_stats' = message_stats]_vars

\* a refused publish to a topic with a subscriber whose queue is full
C5_Witness ==
  /\ ret.op = "publish" /\ ret.val = FALSE /\ running
  /\ HasSubscribers(Cur, ret.topic)
  /\ Len(QueueOf(topics, queues, ret.topic)) = max_queue_size

\* C6: a publish on a broker that is not running returns failure and
\* changes nothing: no topic, queue, task, subscriber list or counter.
C6_PublishNotRunningIsNoOp ==
  [][(ret'.op = "publish" /\ ~running) =>
       /\ ret'.val = FALSE
       /\ UNCHANGED <<running, topics, queues, subscribers, message_handlers,
                      consumers, broker_tasks, message_stats, tasks, pending,
                      delivered>>]_vars

\* a refused publish on a broker that was started and then stopped
C6_Witness ==
  /\ ret.op = "publish" /\ ret.val = FALSE
  /\ ~running /\ nstops > 0 /\ stops = <<>>

\* the step ends a batch: gather has returned in dispatch task i
BatchEnds(i) == tasks[i].pc = "gathering" /\ tasks'[i].pc # "gathering"

\* how many calls of a batch returned r
Returned(i, r) == Cardinality({k \in DOMAIN tasks[i].results : tasks[i].results[k] = r})

\* C7: when a batch in which a callback raised ends, every subscriber the
\* batch was made for has been invoked with the message, and the dispatch
\* task is alive: it waits for the next message, or sleeps when the topic
\* has no subscriber left.
C7_RaiseLeavesOthersServed ==
  [][\A i \in DOMAIN tasks :
       (BatchEnds(i) /\ "False" \in Range(tasks[i].results))
       => /\ Len(tasks[i].results) = Len(tasks[i].calls)
          /\ \A k \in DOMAIN tasks[i].calls :
               tasks[i].msg \in Range(delivered[tasks[i].calls[k]])
          /\ tasks'[i].pc = IF HasSubscribers(Cur, tasks[i].topic)
                            THEN "waiting" ELSE "sleeping"
          /\ queues' = queues]_vars

\* the first callback of a batch of two raised and the second was invoked
C7_Witness ==
  \E i \in DOMAIN tasks :
    /\ tasks[i].pc = "gathering"
    /\ Len(tasks[i].calls) = 2
    /\ tasks[i].results = <<"False", "True">>
    /\ tasks[i].msg \in Range(delivered[tasks[i].calls[2]])

\* C8: when a batch ends, the failed counter has grown by the number of
\* callbacks that raised and the processed counter by the number that
\* returned normally.
C8_TallyPerCallback ==
  [][\A i \in DOMAIN tasks :
       BatchEnds(i)
       => /\ message_stats'.total_failed
               = message_stats.total_failed + Returned(i, "False")
          /\ message_stats'.total_processed
               = message_stats.total_processed + Returned(i, "True")]_vars

\* the subscriber list of a topic, empty when the topic has none
SubscribersOf(d, topic) == IF topic \in DOMAIN d THEN d[topic] ELSE <<>>

\* a list without callback cb, the others in the order they had
Without(list, cb) == SelectSeq(list, LAMBDA x : x # cb)

\* what a subscribe or unsubscribe call does to the list of its topic
RegistrationStep ==
  LET t == ret'.topic
      before == SubscribersOf(subscribers, t)
      after == SubscribersOf(subscribers', t)
      registered == ret'.cb \in Range(before)
  IN  /\ (ret'.op = "subscribe" /\ running /\ registered)
           => (ret'.val = FALSE /\ after = before)
      /\ (ret'.op = "subscribe" /\ running /\ ~registered)
           => (ret'.val = TRUE /\ after = Append(before, ret'.cb))
      /\ (ret'.op = "unsubscribe" /\ ~registered)
           => (ret'.val = FALSE /\ subscribers' = subscribers)
      /\ (ret'.op = "unsubscribe" /\ registered)
           => (ret'.val = TRUE /\ after = Without(before, ret'.cb))

\* a step that is no subscribe or unsubscribe call leaves a list as it
\* was or empties it
OtherStep ==
  \A t \in DOMAIN subscribers' :
    subscribers'[t] \in {SubscribersOf(subscribers, t), <<>>}

\* C9: no subscriber list ever holds a callback twice; a subscribe of a
\* registered callback and an unsubscribe of an unregistered one return
\* failure and leave the list unchanged; a successful subscribe appends at
\* the end and a successful unsubscribe keeps the order of the others.
C9_RegistrationIsIdempotent ==
  /\ [](\A t \in DOMAIN subscribers :
          \A j, k \in DOMAIN subscribers[t] :
            j # k => subscribers[t][j] # subscribers[t][k])
  /\ [][IF ret'.op \in {"subscribe", "unsubscribe"}
        THEN RegistrationStep ELSE OtherStep]_vars

\* a refused subscribe of a callback that is registered, after another one
C9_Witness ==
  /\ ret.op = "subscribe" /\ ret.val = FALSE /\ running
  /\ Len(SubscribersOf(subscribers, ret.topic)) = 2
  /\ ret.cb = subscribers[ret.topic][1]

\* the step ends consume_one call k
OneReturns(k) == ones[k].pc = "waiting" /\ ones'[k].pc = "done"

\* C10: a consume_one call on a running broker returns absent only when its
\* whole timeout has passed with the queue empty, and it changes no queue
\* then; with a message queued it returns the head of the queue and removes
\* that message alone.
C10_ConsumeOneHeadOrAbsent ==
  [][\A k \in DOMAIN ones :
       OneReturns(k)
       => LET q == ones[k].queue
          IN  IF queues[q] # <<>>
              THEN /\ ret'.val = Head(queues[q])
                   /\ queues' = [queues EXCEPT ![q] = Tail(@)]
              ELSE /\ ret'.val = NoMsg
                   /\ ones[k].timer = 0
                   /\ queues' = queues]_vars

\* a consume_one call with the longest timeout that returned absent
C10_Witness ==
  /\ ret.op = "consume_one" /\ ret.val = NoMsg /\ running
  /\ \E k \in DOMAIN ones :
       ones[k].pc = "done" /\ ones[k].timeout = MaxTimeout /\ ones[k].timer = 0

\* a consume sequence the caller can still take messages from
Alive(c) == cons[c].pc \in {"waiting", "yielded"}

\* this step ends the consume sequence c
Ends(c) == Alive(c) /\ cons'[c].pc \notin {"waiting", "yielded"}

\* the wait of sequence c has lasted its whole period with no message
Idle(c) ==
  cons[c].pc = "waiting" /\ cons[c].timer = 0 /\ queues[cons[c].queue] = <<>>

\* the sequence c itself takes this step (not its canceller)
Resumes(c) ==
  /\ cons[c].pc = "waiting"
  /\ [cons'[c] EXCEPT !.cancelled = FALSE] # [cons[c] EXCEPT !.cancelled = FALSE]

ConsumeEndsStep ==
  \A c \in DOMAIN cons :
    /\ cons[c].timeout # None =>
          /\ Idle(c) /\ Resumes(c) => cons'[c].pc = "ended"
          /\ Ends(c) => \/ Idle(c)
                         \/ ~running \/ cons[c].cancelled
                         \/ cons'[c].pc = "closing"
    /\ cons[c].timeout = None =>
          /\ Idle(c) /\ running /\ ~cons[c].cancelled => ~Ends(c)
          /\ Ends(c) => \/ ~running \/ cons[c].cancelled
                         \/ cons'[c].pc = "closing"
          /\ Idle(c) /\ Resumes(c) /\ ~running => cons'[c].pc = "ended"
    /\ cons[c].cancelled /\ Alive(c) /\ cons'[c].pc # cons[c].pc => Ends(c)

\* C11: a consume with a timeout T ends (normally) at the first wait that
\* lasts T with no message, and before that only because the caller leaves
\* or cancels or the broker stops; a consume without a timeout never ends
\* on an idle wait while the broker runs, ends only when the broker is not
\* running or its task was cancelled or its caller left, and never waits
\* longer than one polling interval before it looks at the broker again.
C11_ConsumeEndsOnIdleOrStop ==
  /\ [](\A c \in DOMAIN cons :
          cons[c].timer <= IF cons[c].timeout # None THEN cons[c].timeout
                           ELSE PollInterval)
  /\ [][ConsumeEndsStep]_vars

\* a consume with a timeout has ended on an idle wait of a running broker
\* while a consume without one could not
C11_Witness ==
  /\ running
  /\ \E c \in DOMAIN cons :
       /\ cons[c].timeout = MaxTimeout /\ cons[c].pc = "ended"
       /\ ~cons[c].cancelled /\ cons[c].got = <<>>

\* C12: a consume sequence that has ended, for whatever reason (idle
\* timeout, cancellation, the caller leaving its loop, a stop of the
\* broker), is no longer in the active-consumer list of any topic.
C12_EndedConsumerNotCounted ==
  \A c \in DOMAIN cons :
    ~Alive(c) => c \notin UnionRange(consumers)

\* C13: start() on a broker that is not running marks it running and
\* leaves every well-known topic in the topic map; start() on a running
\* broker changes nothing: topics, queues and their messages, subscriber
\* lists, consumer lists, dispatch tasks and counters are the same.
C13_StartIsIdempotent ==
  [][ret'.op = "start" =>
       IF running
       THEN UNCHANGED <<running, topics, queues, subscribers, message_handlers,
                        consumers, broker_tasks, message_stats, tasks, cons,
                        pending>>
       ELSE running' /\ InternalMessageType \subseteq DOMAIN topics']_vars

\* start() returned on a broker that was running, never stopped, and holds
\* a published message, a subscriber and a dispatch task
C13_Witness ==
  /\ ret.op = "start" /\ running /\ nstops = 0
  /\ message_stats.total_published > 0 /\ message_stats.topics_created > 0
  /\ \E t \in DOMAIN subscribers : subscribers[t] # <<>>
  /\ tasks # <<>>

\* this step is the return of a stop() that found the broker running
StopReturns ==
  /\ ret'.op = "stop"
  /\ running \/ Len(stops') < Len(stops)

\* C14: when stop() returns on a broker that was running, the broker is
\* not running, every dispatch task and every consume task has ended, and
\* the topic map, the subscriber lists, the consumer lists and the handler
\* lists are empty.
C14_StopLeavesNothingBehind ==
  [][StopReturns =>
       /\ ~running'
       /\ \A i \in DOMAIN tasks' : tasks'[i].pc = "done"
       /\ \A c \in DOMAIN cons' : ~Alive(c)'
       /\ topics' = EmptyDict /\ subscribers' = EmptyDict
       /\ consumers' = EmptyDict /\ message_handlers' = EmptyDict]_vars

\* the step is a stop() that found the broker not running
StopSkipped ==
  ret'.op = "stop" /\ ~running /\ Len(stops') = Len(stops)

\* C15: stop() on a broker that is not running (never started, or stopped
\* before) changes nothing: the broker's maps, queues, tasks and counters
\* are the same, and nothing is cancelled or awaited.
C15_StopNotRunningIsNoOp ==
  [][StopSkipped =>
       UNCHANGED <<running, topics, queues, subscribers, message_handlers,
                   consumers, broker_tasks, message_stats, tasks, cons,
                   pending, stops, nstops>>]_vars

\* a second stop() has returned after a completed stop()
C15_Witness ==
  /\ ret.op = "stop" /\ ~running /\ nstops = MaxStops /\ stops = <<>>
  /\ topics = EmptyDict /\ message_stats.topics_created > 0
  /\ tasks # <<>>

\* C16: a registered connection's last heartbeat is never older than
\* heartbeat_interval + ping_timeout (checked on the ten-second grid, so
\* the claim's extra second is granted): a connection that stops acking,
\* or never acks, is gone from the registry by then.
C16_SilentConnectionRemovedInTime ==
  \A user_id \in DOMAIN active_connections :
    now - user_heartbeats[user_id] <= heartbeat_interval + ping_timeout

\* this step is the heartbeat check of loop h finding its user expired
Expires(h) ==
  /\ loops[h].pc = "sleeping"
  /\ loops'[h].reason = "heartbeat_timeout"

\* C17: the heartbeat check expires a connection only if some ping was
\* left without a refresh of the last-heartbeat timestamp for longer than
\* heartbeat_interval + ping_timeout.
C17_RefreshedConnectionNeverExpires ==
  [][\A h \in DOMAIN loops :
       Expires(h) =>
         LET owed == sockets[active_connections[loops[h].user]].owed
         IN  owed # Never /\ now > owed + heartbeat_interval + ping_timeout]_vars

\* C18: a pong received on a registered connection sets that connection's
\* last-heartbeat timestamp to the time of receipt.
C18_PongRefreshesHeartbeat ==
  [][(ret'.op = "receive" /\ ret'.type = "pong") =>
       \A user_id \in DOMAIN active_connections :
         active_connections[user_id] = ret'.websocket
           => /\ user_id \in DOMAIN user_heartbeats'
              /\ user_heartbeats'[user_id] = now]_vars

\* C19: once the heartbeat loop has dealt with an expired connection, the
\* connection is not in the registry, whatever the notification write and
\* the close of the transport did.
C19_ExpiredConnectionIsRemoved ==
  \A h \in DOMAIN loops :
    (loops[h].pc = "done" /\ loops[h].reason = "heartbeat_timeout")
      => loops[h].user \notin DOMAIN active_connections

\* C20: send_personal_message for an id that is not in the registry
\* returns False, writes to no transport and leaves the manager as it was.
C20_SendToUnknownIdFails ==
  [][(ret'.op = "send_personal_message" /\ ~ret'.known) =>
       /\ ret'.val = FALSE
       /\ written' = {}
       /\ UNCHANGED <<active_connections, user_heartbeats, heartbeat_tasks,
                      heartbeat_running, main_heartbeat_task, loops,
                      sockets>>]_vars

\* a send to an id that was never issued has failed while another
\* connection is registered
C20_Witness ==
  /\ ret.op = "send_personal_message" /\ ~ret.known /\ ret.val = FALSE
  /\ ret.user_id > Len(sockets)
  /\ DOMAIN active_connections # {}

\* the entries of the three maps and the heartbeat task of user_id are the
\* same after this step
Untouched(user_id) ==
  /\ user_id \in DOMAIN active_connections'
  /\ active_connections'[user_id] = active_connections[user_id]
  /\ user_id \in DOMAIN user_heartbeats'
  /\ user_heartbeats'[user_id] = user_heartbeats[user_id]
  /\ user_id \in DOMAIN heartbeat_tasks'
  /\ heartbeat_tasks'[user_id] = heartbeat_tasks[user_id]
  /\ loops'[heartbeat_tasks[user_id]] = loops[heartbeat_tasks[user_id]]

\* user_id is in none of the three maps after this step, and the heartbeat
\* task it had is cancelled unless it was done
Removed(user_id) ==
  /\ user_id \notin DOMAIN active_connections'
  /\ user_id \notin DOMAIN user_heartbeats'
  /\ user_id \notin DOMAIN heartbeat_tasks'
  /\ user_id \in DOMAIN heartbeat_tasks =>
        LET h == heartbeat_tasks[user_id]
        IN  loops'[h].pc = "done" \/ loops'[h].cancelled

\* C21: send_personal_message for a registered id writes to that id's
\* transport only and returns True exactly when the write succeeds; after a
\* successful write nothing in the manager has changed, after a failed one
\* the id is out of the three maps with its heartbeat task cancelled, and
\* every other connection is as it was.
C21_SendFailureRemovesOnlyThatConnection ==
  [][(ret'.op = "send_personal_message" /\ ret'.known) =>
       /\ ret'.val = ret'.sent
       /\ written' = {active_connections[ret'.user_id]}
       /\ sockets' = sockets
       /\ IF ret'.val
          THEN UNCHANGED <<active_connections, user_heartbeats,
                           heartbeat_tasks, heartbeat_running,
                           main_heartbeat_task, loops>>
          ELSE /\ Removed(ret'.user_id)
               /\ \A other \in DOMAIN active_connections \ {ret'.user_id} :
                    Untouched(other)]_vars

\* a send to a registered connection has failed and removed it while
\* another connection stays registered
C21_Witness ==
  /\ ret.op = "send_personal_message" /\ ret.known /\ ~ret.val
  /\ ret.user_id \notin DOMAIN active_connections
  /\ \E other \in DOMAIN active_connections :
       loops[heartbeat_tasks[other]].pc # "done"

\* this step is a connect that returned the id user_id
Accepts(user_id) == ret'.op = "connect" /\ ret'.val = user_id

\* C22: a connect that returns stores the transport under an id no
\* connection was given before, sets the id's last heartbeat to the current
\* time and starts a heartbeat task for it that will run (the heartbeat
\* flag is set), leaving the other connections as they were; and an id
\* that was issued and is not registered is not registered by any step.
C22_ConnectRegistersFreshId ==
  /\ [][\A user_id \in UserIds :
          Accepts(user_id) =>
            /\ user_id \notin 1..Len(sockets)
            /\ user_id \notin DOMAIN active_connections
            /\ user_id \in DOMAIN active_connections'
            /\ active_connections'[user_id] = Len(sockets')
            /\ user_id \in DOMAIN user_heartbeats'
            /\ user_heartbeats'[user_id] = now
            /\ user_id \in DOMAIN heartbeat_tasks'
            /\ heartbeat_tasks'[user_id] = Len(loops) + 1
            /\ loops' = Append(loops, NewLoop(user_id))
            /\ heartbeat_running'
            /\ \A other \in DOMAIN active_connections : Untouched(other)]_vars
  /\ [][\A user_id \in 1..Len(sockets) :
          user_id \notin DOMAIN active_connections
            => user_id \notin DOMAIN active_connections']_vars

\* a second connection has been accepted after the first was removed
C22_Witness ==
  /\ ret.op = "connect" /\ ret.val = 2
  /\ DOMAIN active_connections = {2}
  /\ Len(loops) = 2 /\ loops[1].user = 1

\* the three maps and the heartbeat tasks of m are those of the manager
SameRegistry(m) ==
  /\ m.active_connections = active_connections
  /\ m.user_heartbeats = user_heartbeats
  /\ m.heartbeat_tasks = heartbeat_tasks
  /\ m.loops = loops

\* removing what is not registered, by transport or by id, is a no-op
RemoveAbsentIsNoOp ==
  /\ \A websocket \in 1..(Len(sockets) + 1) \ Range(active_connections) :
       SameRegistry(disconnect(Mgr, websocket))
  /\ \A user_id \in UserIds \ DOMAIN active_connections :
       SameRegistry(CleanupUserConnection(Mgr, user_id))

C24_DisconnectAllEmptiesRegistry ==
  ret.op = "disconnect_all" =>
    /\ DOMAIN active_connections = {}
    /\ DOMAIN user_heartbeats = {}
    /\ DOMAIN heartbeat_tasks = {}

\* this step is the response router handling a message addressed to user_id
Routes(user_id) == ret'.op \in {"listener", "handler"} /\ ret'.user_id = user_id

\* C25: when the router handles a message whose addressee is registered,
\* the message is written to the addressee's transport and to no other.
C25_ResponseReachesAddressee ==
  [][\A user_id \in DOMAIN active_connections :
       Routes(user_id) => written' = {active_connections[user_id]}]_vars

\* this step is the router failing to deliver the message it handles
DeliveryFails == ret'.op \in {"listener", "handler"} /\ ret'.val # "True"

\* C26: a step in which the router fails to deliver (addressee not
\* registered, or the send raised) puts no message into any queue and
\* publishes nothing, and leaves the router going: the listener waits for
\* the next message of its sequence, still counted as a consumer, and the
\* dispatch task that ran the handler goes on with its batch; and a queue
\* only ever grows by a publish call.
C26_FailedDeliveryIsDropped ==
  /\ [][DeliveryFails =>
          /\ queues' = queues /\ pubs' = pubs
          /\ message_stats'.total_published = message_stats.total_published
          /\ \A c \in DOMAIN cons :
               cons[c].pc = "yielded" /\ ret'.op = "listener" =>
                 /\ cons'[c].pc = "waiting" /\ ~cons'[c].cancelled
                 /\ c \in Range(consumers'[cons[c].topic])
          /\ \A i \in DOMAIN tasks :
               tasks[i].pc = "gathering" /\ ret'.op = "handler" =>
                 tasks'[i].pc = "gathering" /\ ~tasks'[i].cancelled]_vars
  /\ [][\A q \in DOMAIN queues :
          Len(queues'[q]) > Len(queues[q]) => ret'.op = "publish"]_vars

\* the listener has failed on its second message after failing on the
\* first, and waits for a third
C26_Witness ==
  /\ ret.op = "listener" /\ ret.val # "True"
  /\ \E c \in DOMAIN cons : Len(cons[c].got) = 2 /\ cons[c].pc = "waiting"

\* C27: a callback in a topic's subscriber list (a subscribe put it there
\* and returned success) is still in it after every step that is not an
\* unsubscribe of that callback on that topic; no stop() is called.
C27_SubscriberStaysRegistered ==
  [][\A t \in DOMAIN subscribers :
       \A cb \in Range(subscribers[t]) :
         ~(ret'.op = "unsubscribe" /\ ret'.topic = t /\ ret'.cb = cb)
           => t \in DOMAIN subscribers' /\ cb \in Range(subscribers'[t])]_vars

\* the topics the call of this step names: a publish, consume or
\* consume_one on a running broker, or the _ensure_topic_exists tasks of a
\* subscribe that run in this step
Named ==
  (IF ret'.op \in {"publish", "consume"} /\ running THEN {ret'.topic} ELSE {})
    \cup {ones'[k].topic : k \in DOMAIN ones' \ DOMAIN ones}
    \cup (IF pending # <<>> /\ pending' = Tail(pending)
          THEN {Head(pending)[k].topic : k \in
                  {j \in DOMAIN Head(pending) :
                     Head(pending)[j].co = "_ensure_topic_exists"}}
          ELSE {})

\* C28: in every step that is not the return of a stop() every topic stays
\* with the queue it has, the topics the step's call names exist after it
\* (also when a publish returns failure), the topics added are among those
\* named, and the topics-created counter grows by the number of topics
\* added; a successful or refused subscribe on a running broker leaves the
\* topic existing or its creation scheduled; the counter always equals the
\* number of queues ever created.
C28_TopicsOnlyGrow ==
  /\ [](message_stats.topics_created = Len(queues))
  /\ [][ret'.op # "stop" =>
          /\ \A t \in DOMAIN topics :
               t \in DOMAIN topics' /\ topics'[t] = topics[t]
          /\ Named \subseteq DOMAIN topics'
          /\ DOMAIN topics' \ DOMAIN topics \subseteq Named \cup InternalMessageType
          /\ message_stats'.topics_created - message_stats.topics_created
               = Cardinality(DOMAIN topics' \ DOMAIN topics)
          /\ ret'.op = "subscribe" /\ running =>
               \/ ret'.topic \in DOMAIN topics'
               \/ \E k \in DOMAIN pending' : \E j \in DOMAIN pending'[k] :
                    pending'[k][j] = [topic |-> ret'.topic,
                                      co |-> "_ensure_topic_exists"]]_vars

\* a publish that returned failure has created the topic it names
C28_Witness ==
  /\ ret.op = "publish" /\ ret.val = FALSE /\ running
  /\ ret.topic = "t1" /\ ret.topic \in DOMAIN topics
  /\ message_stats.topics_created = 2

\* dispatch task i has not ended, on a running broker, while its topic's
\* queue is empty and the topic has no subscriber
IdleLoop(i) ==
  /\ i \in DOMAIN tasks /\ tasks[i].pc # "done" /\ running
  /\ QueueOf(topics, queues, tasks[i].topic) = <<>>
  /\ ~HasSubscribers(Cur, tasks[i].topic)

\* C29: no dispatch task stays alive for ever on a running broker while
\* its topic's queue is empty and the topic has no subscriber.
C29_IdleDispatchLoopEnds ==
  \A i \in 1..MaxTasks : ~<>[]IdleLoop(i)

\* the dispatch tasks of a topic that have not finished
ActiveLoops(topic) ==
  {i \in DOMAIN tasks : tasks[i].topic = topic /\ tasks[i].pc # "done"}

\* C30: at any time every topic has at most one dispatch task that has
\* not finished.
C30_OneDispatchLoopPerTopic ==
  \A topic \in Topics : Cardinality(ActiveLoops(topic)) <= 1

\* the step is a publish call on a running broker
PublishCall == pubs' = pubs + 1

\* the messages the step adds to the queue of the topic published to
Added(topic) ==
  Len(QueueOf(topics', queues', topic)) - Len(QueueOf(topics, queues, topic))

\* no queue of the broker, current or forgotten, holds more after the step
NoQueueGrows ==
  \A q \in DOMAIN queues' :
    Len(queues'[q]) <= IF q \in DOMAIN queues THEN Len(queues[q]) ELSE 0

\* C31: total_published grows by exactly one in a publish call that returns
\* success, which enqueues one message, and is unchanged by a publish call
\* that returns failure and by every other step, neither of which enqueues
\* anything; total_consumed never exceeds total_published.
C31_PublishedCountsEnqueued ==
  /\ [][PublishCall =>
          /\ ret'.op = "publish"
          /\ ret'.val = TRUE =>
               /\ message_stats'.total_published
                    = message_stats.total_published + 1
               /\ Added(ret'.topic) = 1
          /\ ret'.val = FALSE =>
               /\ message_stats'.total_published
                    = message_stats.total_published
               /\ NoQueueGrows]_vars
  /\ [][~PublishCall =>
          /\ message_stats'.total_published = message_stats.total_published
          /\ NoQueueGrows]_vars
  /\ [](message_stats.total_consumed <= message_stats.total_published)

\* a publish refused for a full queue after as many publishes were counted
\* as the queue holds
C31_Witness ==
  /\ ret.op = "publish" /\ ret.val = FALSE /\ running
  /\ QueueFull(QueueOf(topics, queues, ret.topic))
  /\ message_stats.total_published = max_queue_size

\* the heartbeat loop h sends a probe in the step
Pings(h) ==
  /\ loops[h].pc = "pinging" /\ loops'[h].pc # "pinging"
  /\ loops[h].websocket \in written'

\* the heartbeat loop h sends the close notification in the step
Notifies(h) ==
  /\ loops[h].pc = "notifying" /\ loops'[h].pc = "closing"
  /\ loops[h].websocket \in written'

\* the heartbeat loop h calls close on the transport in the step
Closes(h) ==
  /\ loops[h].pc = "closing" /\ ~loops[h].cancelled
  /\ loops'[h].pc = "done"

\* C32: once its connection is no longer in the registry, a heartbeat loop
\* sends no probe and no close notification and does not close the
\* transport.
C32_RemovedConnectionIsLeftAlone ==
  [][\A h \in DOMAIN loops :
       loops[h].user \notin DOMAIN active_connections
         => ~Pings(h) /\ ~Notifies(h) /\ ~Closes(h)]_vars

\* C33: a heartbeat task that has been cancelled ends at the await it is
\* suspended in, whichever await that is.
C33_CancelledTaskExits ==
  [][\A h \in DOMAIN loops :
       (loops[h].cancelled /\ loops[h].pc # "done" /\ loops'[h] # loops[h])
         => loops'[h].pc = "done"]_vars

\* a heartbeat task that is neither finished nor cancelled
Running(h) == loops[h].pc # "done" /\ ~loops[h].cancelled

\* C34: the connection map, the last-heartbeat map and the heartbeat-task
\* map hold the same connection ids, and every heartbeat task that is
\* neither finished nor cancelled belongs to an id in the connection map.
C34_RegistryMapsAgree ==
  /\ DOMAIN user_heartbeats = DOMAIN active_connections
  /\ DOMAIN heartbeat_tasks = DOMAIN active_connections
  /\ \A h \in DOMAIN loops :
       Running(h) => loops[h].user \in DOMAIN active_connections

\* the step takes a message out of a queue
Dequeued ==
  \E q \in DOMAIN queues :
    q \in DOMAIN queues' /\ Len(queues'[q]) < Len(queues[q])

\* a dispatch loop starts the callbacks of at least one subscriber
HandedToSubscribers ==
  \E i \in DOMAIN tasks :
    /\ tasks'[i] # tasks[i]
    /\ tasks'[i].pc = "gathering" /\ tasks'[i].calls # <<>>

\* a consume sequence or a consume_one call receives in the step
HandedToConsumer == cons' # cons \/ ones' # ones

\* C35: on a running broker every message taken out of a queue is handed
\* to at least one subscriber callback or to a consumer.
C35_DequeuedMessageHasRecipient ==
  [][(running /\ Dequeued) => HandedToSubscribers \/ HandedToConsumer]_vars

\* the step is a subscribe, consume or consume_one call on a broker that is
\* not running
RefusedCall ==
  ~running /\ ret'.op \in {"subscribe", "consume", "consume_one"}

\* C36: on a broker that is not running subscribe returns failure, consume
\* ends without yielding and consume_one returns no message, and each
\* leaves topics, queues, subscriber lists, consumer lists, tasks and
\* counters as they were.
C36_StoppedBrokerRefusesReaders ==
  [][RefusedCall =>
       /\ ret'.op = "subscribe" => ret'.val = FALSE
       /\ ret'.op = "consume" => ret'.val = "ended"
       /\ ret'.op = "consume_one" => ret'.val = NoMsg
       /\ UNCHANGED <<running, topics, queues, subscribers, message_handlers,
                      consumers, broker_tasks, message_stats, tasks, cons,
                      ones, pending>>]_vars

\* a subscribe refused while stop() still waits for the tasks it cancelled
\* and the broker still holds its topics and a subscriber
C36_Witness ==
  /\ ~running /\ ret.op = "subscribe" /\ ret.val = FALSE
  /\ stops # <<>> /\ topics # EmptyDict
  /\ \E t \in DOMAIN subscribers : subscribers[t] # <<>>

\* C37: a message received on one connection leaves the last-heartbeat
\* timestamp of every other connection as it was, whatever the message
\* carries.
C37_InboundTouchesOwnHeartbeatOnly ==
  [][ret'.op = "receive" =>
       \A user_id \in DOMAIN user_heartbeats :
         (/\ user_id \in DOMAIN active_connections
          /\ active_connections[user_id] # ret'.websocket)
           => /\ user_id \in DOMAIN user_heartbeats'
              /\ user_heartbeats'[user_id] = user_heartbeats[user_id]]_vars

\* C38: whenever the broker is marked running and no stop() is waiting for
\* its tasks (start() never suspends), every well-known topic is in the
\* topic map.
C38_RunningBrokerHasItsTopics ==
  (running /\ stops = <<>>) => InternalMessageType \subseteq DOMAIN topics

\* C39: a broadcast call never ends by raising; when it returns it has
\* tried a write to every connection, bar the one it was told to leave
\* out, that was registered when it began and still is, and none of the
\* connections whose write failed is registered.
C39_BroadcastReachesEveryone ==
  \A k \in DOMAIN casts :
    /\ casts[k].pc # "raised"
    /\ casts[k].pc = "done" =>
         /\ (casts[k].initial \cap DOMAIN active_connections)
               \ {casts[k].exclude_user} \subseteq casts[k].attempted
         /\ casts[k].disconnected_users \cap DOMAIN active_connections = {}

\* ---- the reconnection counter of the client

\* the counter after the calls of one step, from what each call reports
RECURSIVE Counted(_, _)
Counted(calls, n) ==
  IF calls = <<>> THEN n
  ELSE Counted(Tail(calls),
               IF Head(calls).op = "connect" /\ Head(calls).val = "True" THEN 0
               ELSE IF Head(calls).op = "connection_error"
                       /\ Head(calls).val = "reconnecting" THEN n + 1
               ELSE n)

\* the tasks that are in an automatic reconnection: in its sleep or in the
\* connect() it calls
Reconnecting(c) ==
  {t \in DOMAIN c.threads :
     c.threads[t].pc # "done" /\ c.threads[t].chain = "reconnect"}

\* a connection loss was handled in the step
Losses == {i \in DOMAIN ret'.calls : ret'.calls[i].op = "connection_error"}

\* C40: in the client ConnectionManager reconnect_attempts never exceeds
\* max_reconnect_attempts; it changes only by one more per automatic
\* reconnection attempt and to 0 at every connect() that succeeds; a
\* connection loss starts an attempt only if is_connected was true and the
\* counter was below max_reconnect_attempts, and no task enters a
\* reconnection without such a loss.
C40_ReconnectAttemptsBounded ==
  /\ [](client.reconnect_attempts <= lim.max_reconnect_attempts)
  /\ [][ret'.op = "client" =>
          /\ client'.reconnect_attempts =
               Counted(ret'.calls, client.reconnect_attempts)
          /\ \A i \in DOMAIN ret'.calls :
               (ret'.calls[i].op = "connect" /\ ret'.calls[i].val = "True")
                 => ret'.calls[i].reconnect_attempts = 0
          /\ \A i \in Losses :
               /\ ret'.calls[i].val = "reconnecting"
                    <=> /\ ret'.calls[i].is_connected
                        /\ ret'.calls[i].reconnect_attempts
                             < lim.max_reconnect_attempts
               /\ ret'.calls[i].val = "ignored"
                    <=> ~ret'.calls[i].is_connected
          /\ Reconnecting(client') \subseteq
               Reconnecting(client)
                 \cup (IF \E i \in Losses : ret'.calls[i].val = "reconnecting"
                       THEN DOMAIN client'.threads ELSE {})]_vars

\* with max_reconnect_attempts as the class sets it: a loss is handled
\* while an automatic attempt is counted and is_connected is false
C40_Witness ==
  /\ ret.op = "client"
  /\ lim.max_reconnect_attempts = max_reconnect_attempts
  /\ \E i \in DOMAIN ret.calls :
       /\ ret.calls[i].op = "connection_error" /\ ret.calls[i].val = "ignored"
       /\ ret.calls[i].reconnect_attempts = 1
====
